---- MODULE Spec2Model ----
(***************************************************************************)
(* The round engine of word-guesser-be (services/gameService.ts) and the   *)
(* handlers that call it (socket.ts, routes/rooms.ts), as a state machine. *)
(*                                                                         *)
(* The durable store (Prisma) is the variables room, players, rounds and   *)
(* wordActive; the session store (Redis, key game:<roomId>) is game.       *)
(* Every engine function is an operator from a "world" (the stores) and    *)
(* its arguments to the world it leaves behind and the value it returns;   *)
(* every handler is one action that applies the functions it calls.        *)
(* Math.random() outcomes are arguments of the operators: the draws of the *)
(* Fisher-Yates loop (js), the order a random comparator sort leaves       *)
(* (rnd), and the word pair picked (pair).                                 *)
(***************************************************************************)
EXTENDS Integers, Sequences, FiniteSets, TLC

VARIABLES
    room,        \* Room table:    room id -> [exists, hostId, status]
    players,     \* Player table:  room id -> records in joinedAt order
    rounds,      \* Round table:   room id -> [roundNumber, phase] records
    wordActive,  \* WordPair.isActive per catalogue entry
    game,        \* Redis game:<roomId> -> GameState, or NoGame
    last,        \* what the last handler returned / emitted
    leaves,      \* number of accepted leave requests (bounded)
    calls        \* submitVote calls suspended at an await: voter id -> call

vars == <<room, players, rounds, wordActive, game, last, leaves, calls>>

----------------------------------------------------------------------------
\* GAME_CONFIG

MIN_PLAYERS == 4
MAX_PLAYERS == 8
WHITE_HAT_MIN_PLAYERS == 6

----------------------------------------------------------------------------
\* Bounds of the model

\* Rounds played per game: no handler advances past this round number.
MaxRound == 2
\* Accepted leave requests per behaviour.
MaxLeaves == 1

----------------------------------------------------------------------------
\* Identifiers

RoomIds == {1, 2}

\* A player record's id.  The (userId, roomId) pair is unique in the Player
\* table, so the pair stands for the record's opaque id.
PlayerId(r, u) == <<r, u>>

\* An id string that names no player record.
GhostId == <<0, 0>>
\* The empty string "" sent as an id: falsy in JavaScript.
EmptyId == <<>>
\* null / undefined where an id is expected.
NullId == <<0>>

\* JavaScript truthiness of the value read at votes[id].
Truthy(v) == v # EmptyId /\ v # NullId

Range(s) == {s[i] : i \in DOMAIN s}

Rotations(s) ==
    {[i \in DOMAIN s |-> s[((i + k - 1) % Len(s)) + 1]] : k \in 0..(Len(s) - 1)}

----------------------------------------------------------------------------
\* Word pairs.  Words are sequences of characters so that trim() and
\* toLowerCase() are computed, not assumed.

WordCatalogue ==
    <<[wordA |-> <<"c", "a", "m">>, wordB |-> <<"q", "u", "y", "t">>]>>

WordPairIds == DOMAIN WordCatalogue

NoPair == 0

ActivePairs(w) == {p \in WordPairIds : w.wordActive[p]}

\* getRandomWordPair: some active pair, or null when the count is 0.
RandomWordPairs(w) == IF ActivePairs(w) = {} THEN {NoPair} ELSE ActivePairs(w)

IsSpace(c) == c = " "

RECURSIVE TrimStart(_)
TrimStart(s) ==
    IF s # <<>> /\ IsSpace(Head(s)) THEN TrimStart(Tail(s)) ELSE s

RECURSIVE TrimEnd(_)
TrimEnd(s) ==
    IF s # <<>> /\ IsSpace(s[Len(s)]) THEN TrimEnd(SubSeq(s, 1, Len(s) - 1)) ELSE s

Trim(s) == TrimEnd(TrimStart(s))

LowerChar(c) ==
    CASE c = "C" -> "c"
      [] c = "A" -> "a"
      [] c = "M" -> "m"
      [] OTHER -> c

ToLowerCase(s) == [i \in DOMAIN s |-> LowerChar(s[i])]

----------------------------------------------------------------------------
\* The stores

NoGame ==
    [roundNumber |-> 0, phase |-> "NONE", turnOrder |-> <<>>,
     currentTurnIndex |-> 0, clues |-> <<>>, votes |-> <<>>,
     eliminatedPlayers |-> <<>>, wordPairId |-> NoPair]

World ==
    [room |-> room, players |-> players, rounds |-> rounds,
     wordActive |-> wordActive, game |-> game]

\* redis.get(GAME_KEY(roomId)); a room id that was never used has no key.
GetGameState(w, r) == IF r \in DOMAIN w.game THEN w.game[r] ELSE NoGame

SetGameState(w, r, state) == [w EXCEPT !.game[r] = state]

DeleteGameState(w, r) == [w EXCEPT !.game[r] = NoGame]

\* A room id no room was created with.
NoRoom ==
    [exists |-> FALSE, hostId |-> 0, status |-> "NONE", cached |-> FALSE, codeMapped |-> FALSE]

RoomExists(w, r) == r \in RoomIds /\ w.room[r].exists

\* The cached room state: the model keeps whether the key ROOM_KEY(roomId)
\* and the key room_code:<code> exist, as `cached` and `codeMapped` of the
\* room.  setRoomState(state)
SetRoomState(w, r) == [w EXCEPT !.room[r].cached = TRUE]

\* deleteRoomState(roomId)
DeleteRoomState(w, r) == [w EXCEPT !.room[r].cached = FALSE]

\* deleteRoomCodeMapping(code)
DeleteRoomCodeMapping(w, r) == [w EXCEPT !.room[r].codeMapped = FALSE]

\* getRoomState(roomId), the effect on the store: a missing key is restored
\* from the database unless the room is FINISHED.
GetRoomState(w, r) ==
    IF RoomExists(w, r) /\ w.room[r].status # "FINISHED" THEN SetRoomState(w, r) ELSE w

\* Indexes of room r's player records, all of them / the active ones.
PlayerIdx(w, r) == DOMAIN w.players[r]

ActiveIdx(w, r) == {i \in PlayerIdx(w, r) : w.players[r][i].isActive}

\* prisma.player.findMany({ where: { roomId, isActive: true } }), as ids in
\* joinedAt order.
RECURSIVE ActiveFrom(_, _, _)
ActiveFrom(w, r, i) ==
    IF i > Len(w.players[r]) THEN <<>>
    ELSE IF w.players[r][i].isActive
         THEN <<PlayerId(r, w.players[r][i].userId)>> \o ActiveFrom(w, r, i + 1)
         ELSE ActiveFrom(w, r, i + 1)

ActivePlayerIds(w, r) == ActiveFrom(w, r, 1)

RoomPlayerIds(w, r) == {PlayerId(r, w.players[r][i].userId) : i \in PlayerIdx(w, r)}

\* prisma.player.findUnique({ where: { id } }): the lookup is by id alone,
\* whatever room the record belongs to.
PlayerExists(w, id) ==
    /\ Len(id) = 2
    /\ id[1] \in RoomIds
    /\ \E i \in PlayerIdx(w, id[1]) : w.players[id[1]][i].userId = id[2]

IndexOfPlayer(w, id) ==
    CHOOSE i \in PlayerIdx(w, id[1]) : w.players[id[1]][i].userId = id[2]

FindPlayer(w, id) == w.players[id[1]][IndexOfPlayer(w, id)]

\* prisma.player.update({ where: { id }, data: { isActive } })
SetPlayerActive(w, id, flag) ==
    [w EXCEPT !.players[id[1]][IndexOfPlayer(w, id)].isActive = flag]

\* array[i] of a JavaScript array, 0-based: undefined outside the array.
ArrayAt(s, i) == IF i + 1 \in DOMAIN s THEN s[i + 1] ELSE NullId

\* Variant of SortRandom that keeps every ranked id, filtered or not.
SortRandomUnfiltered(s, rnd) == rnd

\* The order Array.prototype.sort leaves with the comparator
\* () => Math.random() - 0.5: the elements of s, ranked by the outcome rnd.
SortRandom(s, rnd) == SelectSeq(rnd, LAMBDA x : x \in Range(s))

----------------------------------------------------------------------------
\* Role assignment

Swap(s, i, j) == [s EXCEPT ![i] = s[j], ![j] = s[i]]

\* The shuffle loop: for i = length-1 down to 1, j = floor(random * (i+1)),
\* swap roles[i] and roles[j]; js[i] is the j drawn at index i (0-based).
RECURSIVE FisherYates(_, _, _)
FisherYates(roles, i, js) ==
    IF i < 1 THEN roles
    ELSE FisherYates(Swap(roles, i + 1, js[i] + 1), i - 1, js)

Draws(n) == {js \in [1..(n - 1) -> 0..(n - 1)] : \A i \in 1..(n - 1) : js[i] <= i}

\* Variant of AssignRoles that deals a WHITE_HAT only above the threshold.
AssignRolesAboveThreshold(playerCount, js) ==
    LET hasWhiteHat == playerCount > WHITE_HAT_MIN_PLAYERS
        special == IF hasWhiteHat THEN <<"BLACK_HAT", "WHITE_HAT">> ELSE <<"BLACK_HAT">>
        civilianCount == playerCount - Len(special)
        roles == special \o [i \in 1..civilianCount |-> "CIVILIAN"]
    IN  FisherYates(roles, Len(roles) - 1, js)

\* Variant of AssignRoles that deals a WHITE_HAT from one player fewer.
AssignRolesOneEarlier(playerCount, js) ==
    LET hasWhiteHat == playerCount > WHITE_HAT_MIN_PLAYERS - 2
        special == IF hasWhiteHat THEN <<"BLACK_HAT", "WHITE_HAT">> ELSE <<"BLACK_HAT">>
        civilianCount == playerCount - Len(special)
        roles == special \o [i \in 1..civilianCount |-> "CIVILIAN"]
    IN  FisherYates(roles, Len(roles) - 1, js)

AssignRoles(playerCount, js) ==
    LET hasWhiteHat == playerCount > WHITE_HAT_MIN_PLAYERS - 1
        special == IF hasWhiteHat THEN <<"BLACK_HAT", "WHITE_HAT">> ELSE <<"BLACK_HAT">>
        civilianCount == playerCount - Len(special)
        roles == special \o [i \in 1..civilianCount |-> "CIVILIAN"]
    IN  FisherYates(roles, Len(roles) - 1, js)

----------------------------------------------------------------------------
\* Results

NoResult ==
    [op |-> "error", ok |-> FALSE, threw |-> FALSE, allVoted |-> FALSE,
     votingStarted |-> FALSE, nextPlayerId |-> NullId,
     resolved |-> FALSE, eliminatedPlayerId |-> NullId, isWhiteHat |-> FALSE,
     gameOver |-> FALSE, winner |-> "NONE", correct |-> FALSE,
     correctWord |-> <<>>, whiteHatGuess |-> <<>>, words |-> <<>>]

\* A handler that rejects the request emits ERROR and nothing else; one that
\* accepts it emits the events of its operation.
Result(op, ok) == IF ok THEN [NoResult EXCEPT !.op = op, !.ok = TRUE] ELSE NoResult

----------------------------------------------------------------------------
\* Secret words

\* A string | null value: null, or the string s.
NullWord == [null |-> TRUE, word |-> <<>>]

Word(s) == [null |-> FALSE, word |-> s]

\* Variant of GetWordForPlayer that gives the BLACK_HAT the civilians' word.
GetWordForPlayerSameWord(wordPairId, role) ==
    IF wordPairId \notin WordPairIds THEN NullWord
    ELSE IF role = "CIVILIAN" THEN Word(WordCatalogue[wordPairId].wordA)
    ELSE IF role = "BLACK_HAT" THEN Word(WordCatalogue[wordPairId].wordA)
    ELSE NullWord

\* getWordForPlayer(wordPairId, role)
GetWordForPlayer(wordPairId, role) ==
    IF wordPairId \notin WordPairIds THEN NullWord
    ELSE IF role = "CIVILIAN" THEN Word(WordCatalogue[wordPairId].wordA)
    ELSE IF role = "BLACK_HAT" THEN Word(WordCatalogue[wordPairId].wordB)
    ELSE NullWord

\* The word of each ROUND_STARTED event START_GAME sends: one to every player
\* record of the room that has a role, by record index.
WordsSent(w, r, wordPairId) ==
    [i \in {k \in DOMAIN w.players[r] : w.players[r][k].role # "NONE"} |->
       GetWordForPlayer(wordPairId, w.players[r][i].role)]

----------------------------------------------------------------------------
\* Game start

\* The GameState startGame writes to the session store.
NewGameState(turnOrder, pair) ==
    [roundNumber |-> 1, phase |-> "HINTING", turnOrder |-> turnOrder,
     currentTurnIndex |-> 0, clues |-> <<>>, votes |-> <<>>,
     eliminatedPlayers |-> <<>>, wordPairId |-> pair]

\* Variant of StartGameRejects without the host comparison.
StartGameRejectsAnyUser(w, r, hostUserId, pair) ==
    \/ ~RoomExists(w, r)
    \/ w.room[r].status # "WAITING"
    \/ Len(ActivePlayerIds(w, r)) < MIN_PLAYERS
    \/ pair = NoPair

\* The checks startGame makes before it draws or writes anything.
StartGameRejects(w, r, hostUserId, pair) ==
    \/ ~RoomExists(w, r)
    \/ w.room[r].hostId # hostUserId
    \/ w.room[r].status # "WAITING"
    \/ Len(ActivePlayerIds(w, r)) < MIN_PLAYERS
    \/ pair = NoPair

\* startGame(roomId, hostUserId) -> [w, ok]
StartGame(w, r, hostUserId, pair, js, rnd) ==
    IF StartGameRejects(w, r, hostUserId, pair) THEN [w |-> w, ok |-> FALSE]
    ELSE LET activePlayers == ActivePlayerIds(w, r)
             n == Len(activePlayers)
             roles == AssignRoles(n, js)
             roleOf(id) == roles[CHOOSE k \in 1..n : activePlayers[k] = id]
             \* the transaction: status, roles, round 1
             w1 == [w EXCEPT
                      !.room[r].status = "IN_PROGRESS",
                      !.players[r] =
                          [i \in DOMAIN w.players[r] |->
                             IF w.players[r][i].isActive
                             THEN [w.players[r][i] EXCEPT
                                     !.role = roleOf(PlayerId(r, w.players[r][i].userId))]
                             ELSE w.players[r][i]],
                      !.rounds[r] = Append(@, [roundNumber |-> 1, phase |-> "HINTING"])]
             gameState == NewGameState(SortRandom(activePlayers, rnd), pair)
         IN  [w |-> SetRoomState(SetGameState(w1, r, gameState), r), ok |-> TRUE]

----------------------------------------------------------------------------
\* Clue submission

\* The "skip eliminated players" loop.
RECURSIVE SkipEliminated(_, _)
SkipEliminated(state, i) ==
    IF i < Len(state.turnOrder) /\ state.turnOrder[i + 1] \in Range(state.eliminatedPlayers)
    THEN SkipEliminated(state, i + 1)
    ELSE i

\* prisma.round.findFirst({ where: { roomId, roundNumber: n } }) and the
\* prisma.round.update({ where: { id }, data: { phase } }) on its result.
SetRoundPhase(w, r, n, phase) ==
    LET k == CHOOSE i \in DOMAIN w.rounds[r] :
                 /\ w.rounds[r][i].roundNumber = n
                 /\ \A j \in DOMAIN w.rounds[r] : w.rounds[r][j].roundNumber = n => i <= j
    IN  [w EXCEPT !.rounds[r][k].phase = phase]

HasRound(w, r, n) == \E i \in DOMAIN w.rounds[r] : w.rounds[r][i].roundNumber = n

\* Variant of IsExpectedPlayer that accepts any player of the turn order.
IsExpectedPlayerAnyTurn(state, playerId) == playerId \in Range(state.turnOrder)

\* state.turnOrder[state.currentTurnIndex] === playerId
IsExpectedPlayer(state, playerId) ==
    ArrayAt(state.turnOrder, state.currentTurnIndex) = playerId

\* Variant of TurnsExhausted with > in place of >=.
TurnsExhaustedLate(state) == state.currentTurnIndex > Len(state.turnOrder)

\* state.currentTurnIndex >= state.turnOrder.length
TurnsExhausted(state) == state.currentTurnIndex >= Len(state.turnOrder)

ClueFailure(w) == [w |-> w, ok |-> FALSE, votingStarted |-> FALSE, nextPlayerId |-> NullId]

\* submitClue(roomId, playerId, content) -> [w, ok, votingStarted, nextPlayerId]
SubmitClue(w, r, playerId, content) ==
    LET state == GetGameState(w, r)
    IN  IF state = NoGame THEN ClueFailure(w)
        ELSE IF state.phase # "HINTING" THEN ClueFailure(w)
        ELSE IF ~IsExpectedPlayer(state, playerId) THEN ClueFailure(w)
        ELSE IF ~HasRound(w, r, state.roundNumber) THEN ClueFailure(w)
        ELSE IF ~PlayerExists(w, playerId) THEN ClueFailure(w)
        ELSE LET pushed == [state EXCEPT
                              !.clues = Append(@, [playerId |-> playerId, content |-> content])]
                 idx == SkipEliminated(pushed, pushed.currentTurnIndex + 1)
                 moved == [pushed EXCEPT !.currentTurnIndex = idx]
             IN  IF TurnsExhausted(moved)
                 THEN [w |-> SetGameState(SetRoundPhase(w, r, state.roundNumber, "VOTING"),
                                          r, [moved EXCEPT !.phase = "VOTING"]),
                       ok |-> TRUE, votingStarted |-> TRUE, nextPlayerId |-> NullId]
                 ELSE [w |-> SetGameState(w, r, moved),
                       ok |-> TRUE, votingStarted |-> FALSE,
                       nextPlayerId |-> ArrayAt(moved.turnOrder, idx)]

----------------------------------------------------------------------------
\* Voting

\* state.votes[id]: undefined for a key that is not there.
VoteOf(state, id) == IF id \in DOMAIN state.votes THEN state.votes[id] ELSE NullId

\* state.votes[voterId] = targetId
PutVote(votes, voterId, targetId) ==
    [v \in DOMAIN votes \cup {voterId} |-> IF v = voterId THEN targetId ELSE votes[v]]

\* prisma.vote.create({ data: { roundId, voterId, targetId } }): the Vote
\* table takes any target id string.
VoteRecordAccepted(voterId, targetId) == TRUE

VoteFailure(w) == [w |-> w, ok |-> FALSE, allVoted |-> FALSE]

\* submitVote(roomId, voterId, targetId) -> [w, ok, allVoted]
SubmitVote(w, r, voterId, targetId) ==
    LET state == GetGameState(w, r)
    IN  IF state = NoGame THEN VoteFailure(w)
        ELSE IF state.phase # "VOTING" THEN VoteFailure(w)
        ELSE IF voterId \in Range(state.eliminatedPlayers) THEN VoteFailure(w)
        ELSE IF Truthy(VoteOf(state, voterId)) THEN VoteFailure(w)
        ELSE IF ~HasRound(w, r, state.roundNumber) THEN VoteFailure(w)
        ELSE IF ~VoteRecordAccepted(voterId, targetId) THEN VoteFailure(w)
        ELSE LET voted == [state EXCEPT !.votes = PutVote(@, voterId, targetId)]
                 activePlayers ==
                     {id \in Range(voted.turnOrder) : id \notin Range(voted.eliminatedPlayers)}
                 allVoted == \A id \in activePlayers : Truthy(VoteOf(voted, id))
             IN  [w |-> SetGameState(w, r, voted), ok |-> TRUE, allVoted |-> allVoted]

----------------------------------------------------------------------------
\* Win conditions, next round, end of game

\* Variant of CheckWinConditions with activeCount < 2 in place of <= 2.
CheckWinConditionsBelowTwo(w, r, state) ==
    LET activePlayers == {w.players[r][i] : i \in ActiveIdx(w, r)}
        hasBlackHat == \E p \in activePlayers : p.role = "BLACK_HAT"
        activeCount == Cardinality(ActiveIdx(w, r))
    IN  IF state = NoGame THEN [gameOver |-> FALSE, winner |-> "NONE"]
        ELSE IF activeCount < 2 /\ hasBlackHat THEN [gameOver |-> TRUE, winner |-> "BLACK_HAT"]
        ELSE IF ~hasBlackHat THEN [gameOver |-> TRUE, winner |-> "CIVILIAN"]
        ELSE [gameOver |-> FALSE, winner |-> "NONE"]

\* checkWinConditions(roomId, state) -> [gameOver, winner]
CheckWinConditions(w, r, state) ==
    LET activePlayers == {w.players[r][i] : i \in ActiveIdx(w, r)}
        hasBlackHat == \E p \in activePlayers : p.role = "BLACK_HAT"
        hasWhiteHat == \E p \in activePlayers : p.role = "WHITE_HAT"
        activeCount == Cardinality(ActiveIdx(w, r))
    IN  IF state = NoGame THEN [gameOver |-> FALSE, winner |-> "NONE"]
        ELSE IF activeCount <= 2 /\ hasBlackHat THEN [gameOver |-> TRUE, winner |-> "BLACK_HAT"]
        ELSE IF ~hasBlackHat THEN [gameOver |-> TRUE, winner |-> "CIVILIAN"]
        ELSE IF ~hasBlackHat /\ ~hasWhiteHat THEN [gameOver |-> TRUE, winner |-> "CIVILIAN"]
        ELSE [gameOver |-> FALSE, winner |-> "NONE"]

\* Variant of StartNextRound that keeps the round number.
StartNextRoundSameNumber(w, r, state, pair, rnd) ==
    IF pair = NoPair THEN w
    ELSE LET next ==
                 [state EXCEPT
                    !.phase = "HINTING",
                    !.clues = <<>>,
                    !.votes = <<>>,
                    !.wordPairId = pair,
                    !.turnOrder = SortRandom(ActivePlayerIds(w, r), rnd),
                    !.currentTurnIndex = 0]
             w1 == [w EXCEPT !.rounds[r] =
                        Append(@, [roundNumber |-> next.roundNumber, phase |-> "HINTING"])]
         IN  SetGameState(w1, r, next)

\* Variant of StartNextRound that also empties eliminatedPlayers.
StartNextRoundClearing(w, r, state, pair, rnd) ==
    IF pair = NoPair THEN w
    ELSE LET next ==
                 [state EXCEPT
                    !.roundNumber = @ + 1,
                    !.phase = "HINTING",
                    !.clues = <<>>,
                    !.votes = <<>>,
                    !.eliminatedPlayers = <<>>,
                    !.wordPairId = pair,
                    !.turnOrder = SortRandom(ActivePlayerIds(w, r), rnd),
                    !.currentTurnIndex = 0]
             w1 == [w EXCEPT !.rounds[r] =
                        Append(@, [roundNumber |-> next.roundNumber, phase |-> "HINTING"])]
         IN  SetGameState(w1, r, next)

\* startNextRound(roomId, state): state is the caller's local copy; it
\* reaches the store only through the setGameState at the end.
StartNextRound(w, r, state, pair, rnd) ==
    IF pair = NoPair THEN w
    ELSE LET next ==
                 [state EXCEPT
                    !.roundNumber = @ + 1,
                    !.phase = "HINTING",
                    !.clues = <<>>,
                    !.votes = <<>>,
                    !.wordPairId = pair,
                    !.turnOrder = SortRandom(ActivePlayerIds(w, r), rnd),
                    !.currentTurnIndex = 0]
             w1 == [w EXCEPT !.rounds[r] =
                        Append(@, [roundNumber |-> next.roundNumber, phase |-> "HINTING"])]
         IN  SetGameState(w1, r, next)

\* prisma.round.findFirst({ where: { roomId }, orderBy: { roundNumber: 'desc' } })
LatestRound(w, r) ==
    CHOOSE i \in DOMAIN w.rounds[r] :
        \A j \in DOMAIN w.rounds[r] :
            \/ w.rounds[r][j].roundNumber < w.rounds[r][i].roundNumber
            \/ (w.rounds[r][j].roundNumber = w.rounds[r][i].roundNumber /\ i <= j)

\* Variant of EndGame that leaves the session in the store.
EndGameKeepsSession(w, r) ==
    LET w1 == [w EXCEPT !.room[r].status = "FINISHED"]
        w2 == IF w1.rounds[r] = <<>> THEN w1
              ELSE [w1 EXCEPT !.rounds[r][LatestRound(w1, r)].phase = "RESULT"]
    IN  DeleteRoomState(w2, r)

\* endGame(roomId, state, winner)
EndGame(w, r) ==
    LET w1 == [w EXCEPT !.room[r].status = "FINISHED"]
        w2 == IF w1.rounds[r] = <<>> THEN w1
              ELSE [w1 EXCEPT !.rounds[r][LatestRound(w1, r)].phase = "RESULT"]
    IN  DeleteRoomState(DeleteGameState(w2, r), r)

----------------------------------------------------------------------------
\* Tally votes and resolve the round

\* voteCounts[targetId]
VoteCount(votes, targetId) == Cardinality({v \in DOMAIN votes : votes[v] = targetId})

\* Math.max(0, ...Object.values(voteCounts))
MaxVotes(votes) ==
    LET counts == {VoteCount(votes, votes[v]) : v \in DOMAIN votes} \cup {0}
    IN  CHOOSE m \in counts : \A c \in counts : c <= m

\* The keys of voteCounts whose count is maxVotes.
TopTargets(votes) ==
    {t \in Range(votes) : VoteCount(votes, t) = MaxVotes(votes)}

\* Variant of IsWhiteHat that compares with another role name.
IsWhiteHatOtherName(eliminatedPlayer) == eliminatedPlayer.role = "WHITEHAT"

\* eliminatedPlayer.role === PlayerRole.WHITE_HAT
IsWhiteHat(eliminatedPlayer) == eliminatedPlayer.role = "WHITE_HAT"

NoResolution ==
    [threw |-> FALSE, eliminatedPlayerId |-> NullId, eliminatedRole |-> "NONE",
     isWhiteHat |-> FALSE, gameOver |-> FALSE, winner |-> "NONE"]

Thrown == [NoResolution EXCEPT !.threw = TRUE]

\* resolveVotes(roomId) -> [w, res]; res.threw stands for the Error thrown.
ResolveVotes(w, r, pair, rnd) ==
    LET state == GetGameState(w, r)
        topTargets == TopTargets(state.votes)
    IN  IF state = NoGame THEN [w |-> w, res |-> Thrown]
        ELSE IF Cardinality(topTargets) > 1
        THEN [w |-> StartNextRound(w, r, state, pair, rnd), res |-> NoResolution]
        \* topTargets[0] is undefined with no vote at all: findUnique rejects it
        ELSE IF topTargets = {} THEN [w |-> w, res |-> Thrown]
        ELSE LET eliminatedPlayerId == CHOOSE t \in topTargets : TRUE
             IN  IF ~PlayerExists(w, eliminatedPlayerId) THEN [w |-> w, res |-> Thrown]
                 ELSE LET eliminatedPlayer == FindPlayer(w, eliminatedPlayerId)
                          w1 == SetPlayerActive(w, eliminatedPlayerId, FALSE)
                          pushed == [state EXCEPT
                                       !.eliminatedPlayers = Append(@, eliminatedPlayerId)]
                          isWhiteHat == IsWhiteHat(eliminatedPlayer)
                          res == [NoResolution EXCEPT
                                    !.eliminatedPlayerId = eliminatedPlayerId,
                                    !.eliminatedRole = eliminatedPlayer.role,
                                    !.isWhiteHat = isWhiteHat]
                          winResult == CheckWinConditions(w1, r, pushed)
                      IN  IF isWhiteHat
                          THEN LET w2 == IF HasRound(w1, r, pushed.roundNumber)
                                         THEN SetRoundPhase(w1, r, pushed.roundNumber, "GUESSING")
                                         ELSE w1
                               IN  [w |-> SetGameState(w2, r, [pushed EXCEPT !.phase = "GUESSING"]),
                                    res |-> res]
                          ELSE IF winResult.gameOver
                          THEN [w |-> EndGame(w1, r),
                                res |-> [res EXCEPT !.gameOver = TRUE,
                                                    !.winner = winResult.winner]]
                          ELSE [w |-> StartNextRound(w1, r, pushed, pair, rnd), res |-> res]

----------------------------------------------------------------------------
\* White hat guessing phase

GuessFailure(w) ==
    [w |-> w, success |-> FALSE, correct |-> FALSE, correctWord |-> <<>>,
     gameOver |-> FALSE, winner |-> "NONE"]

\* The checks submitWhiteHatGuess makes before it compares the guess.
GuessRejects(w, r) ==
    \/ GetGameState(w, r) = NoGame
    \/ GetGameState(w, r).phase # "GUESSING"
    \/ GetGameState(w, r).wordPairId \notin WordPairIds

\* Variant of SubmitWhiteHatGuess that compares the words case by case.
SubmitWhiteHatGuessExact(w, r, whiteHatPlayerId, guess, pair, rnd) ==
    LET state == GetGameState(w, r)
    IN  IF GuessRejects(w, r) THEN GuessFailure(w)
        ELSE LET wordPair == WordCatalogue[state.wordPairId]
                 correct == Trim(guess) = Trim(wordPair.wordA)
                 winResult == CheckWinConditions(w, r, state)
             IN  IF correct
                 THEN [w |-> EndGame(w, r), success |-> TRUE, correct |-> TRUE,
                       correctWord |-> <<>>, gameOver |-> TRUE, winner |-> "WHITE_HAT"]
                 ELSE IF winResult.gameOver
                 THEN [w |-> EndGame(w, r), success |-> TRUE, correct |-> FALSE,
                       correctWord |-> wordPair.wordA, gameOver |-> TRUE,
                       winner |-> winResult.winner]
                 ELSE [w |-> StartNextRound(w, r, state, pair, rnd), success |-> TRUE,
                       correct |-> FALSE, correctWord |-> wordPair.wordA,
                       gameOver |-> FALSE, winner |-> "NONE"]

\* submitWhiteHatGuess(roomId, whiteHatPlayerId, guess)
\*   -> [w, success, correct, correctWord, gameOver, winner]
\* correctWord <<>> stands for a response without that field.
SubmitWhiteHatGuess(w, r, whiteHatPlayerId, guess, pair, rnd) ==
    LET state == GetGameState(w, r)
    IN  IF GuessRejects(w, r) THEN GuessFailure(w)
        ELSE LET wordPair == WordCatalogue[state.wordPairId]
                 correct == ToLowerCase(Trim(guess)) = ToLowerCase(Trim(wordPair.wordA))
                 winResult == CheckWinConditions(w, r, state)
             IN  IF correct
                 THEN [w |-> EndGame(w, r), success |-> TRUE, correct |-> TRUE,
                       correctWord |-> <<>>, gameOver |-> TRUE, winner |-> "WHITE_HAT"]
                 ELSE IF winResult.gameOver
                 THEN [w |-> EndGame(w, r), success |-> TRUE, correct |-> FALSE,
                       correctWord |-> wordPair.wordA, gameOver |-> TRUE,
                       winner |-> winResult.winner]
                 ELSE [w |-> StartNextRound(w, r, state, pair, rnd), success |-> TRUE,
                       correct |-> FALSE, correctWord |-> wordPair.wordA,
                       gameOver |-> FALSE, winner |-> "NONE"]

----------------------------------------------------------------------------
\* Room membership (routes/rooms.ts)

HasPlayerOf(w, r, userId) == \E i \in PlayerIdx(w, r) : w.players[r][i].userId = userId

\* Variant of JoinRoom that creates a record whether or not one exists.
JoinRoomAlwaysCreates(w, r, userId) ==
    IF ~RoomExists(w, r) THEN [w |-> w, ok |-> FALSE]
    ELSE IF w.room[r].status # "WAITING" THEN [w |-> w, ok |-> FALSE]
    ELSE IF Cardinality(ActiveIdx(w, r)) >= MAX_PLAYERS THEN [w |-> w, ok |-> FALSE]
    ELSE [w |-> SetRoomState([w EXCEPT !.players[r] =
                    Append(@, [userId |-> userId, isActive |-> TRUE, role |-> "NONE"])], r),
          ok |-> TRUE]

\* Variant of JoinRoom without the test of the room's status.
JoinRoomAnyStatus(w, r, userId) ==
    IF ~RoomExists(w, r) THEN [w |-> w, ok |-> FALSE]
    ELSE IF Cardinality(ActiveIdx(w, r)) >= MAX_PLAYERS THEN [w |-> w, ok |-> FALSE]
    ELSE IF HasPlayerOf(w, r, userId)
    THEN [w |-> SetRoomState(SetPlayerActive(w, PlayerId(r, userId), TRUE), r), ok |-> TRUE]
    ELSE [w |-> SetRoomState([w EXCEPT !.players[r] =
                    Append(@, [userId |-> userId, isActive |-> TRUE, role |-> "NONE"])], r),
          ok |-> TRUE]

\* POST /rooms/join -> [w, ok]
JoinRoom(w, r, userId) ==
    IF ~RoomExists(w, r) THEN [w |-> w, ok |-> FALSE]
    ELSE IF w.room[r].status # "WAITING" THEN [w |-> w, ok |-> FALSE]
    ELSE IF Cardinality(ActiveIdx(w, r)) >= MAX_PLAYERS THEN [w |-> w, ok |-> FALSE]
    ELSE IF HasPlayerOf(w, r, userId)
    THEN [w |-> SetRoomState(SetPlayerActive(w, PlayerId(r, userId), TRUE), r), ok |-> TRUE]
    ELSE [w |-> SetRoomState([w EXCEPT !.players[r] =
                    Append(@, [userId |-> userId, isActive |-> TRUE, role |-> "NONE"])], r),
          ok |-> TRUE]

\* Variant of LeaveRoom that hands the room to the latest-joined player.
LeaveRoomLatestJoined(w, r, userId) ==
    IF ~RoomExists(w, r) THEN [w |-> w, ok |-> FALSE]
    ELSE IF ~HasPlayerOf(w, r, userId) THEN [w |-> w, ok |-> FALSE]
    ELSE LET w1 == GetRoomState(SetPlayerActive(w, PlayerId(r, userId), FALSE), r)
             others == {i \in ActiveIdx(w1, r) : w1.players[r][i].userId # userId}
             nextPlayer == CHOOSE i \in others : \A j \in others : j <= i
         IN  IF w.room[r].hostId = userId /\ w.room[r].status = "WAITING"
             THEN IF others # {}
                  THEN [w |-> SetRoomState(
                                [w1 EXCEPT !.room[r].hostId = w1.players[r][nextPlayer].userId], r),
                        ok |-> TRUE]
                  ELSE [w |-> DeleteRoomCodeMapping(
                                DeleteRoomState([w1 EXCEPT !.room[r].status = "FINISHED"], r), r),
                        ok |-> TRUE]
             ELSE [w |-> SetRoomState(w1, r), ok |-> TRUE]

\* Variant of LeaveRoom that passes the turn on when the player whose turn it
\* is leaves.
LeaveRoomSkipsTurn(w, r, userId) ==
    IF ~RoomExists(w, r) THEN [w |-> w, ok |-> FALSE]
    ELSE IF ~HasPlayerOf(w, r, userId) THEN [w |-> w, ok |-> FALSE]
    ELSE LET state == GetGameState(w, r)
             w0 == IF /\ state.phase = "HINTING"
                      /\ ArrayAt(state.turnOrder, state.currentTurnIndex) = PlayerId(r, userId)
                   THEN SetGameState(w, r, [state EXCEPT !.currentTurnIndex = @ + 1])
                   ELSE w
             w1 == GetRoomState(SetPlayerActive(w0, PlayerId(r, userId), FALSE), r)
             others == {i \in ActiveIdx(w1, r) : w1.players[r][i].userId # userId}
             nextPlayer == CHOOSE i \in others : \A j \in others : i <= j
         IN  IF w.room[r].hostId = userId /\ w.room[r].status = "WAITING"
             THEN IF others # {}
                  THEN [w |-> SetRoomState(
                                [w1 EXCEPT !.room[r].hostId = w1.players[r][nextPlayer].userId], r),
                        ok |-> TRUE]
                  ELSE [w |-> DeleteRoomCodeMapping(
                                DeleteRoomState([w1 EXCEPT !.room[r].status = "FINISHED"], r), r),
                        ok |-> TRUE]
             ELSE [w |-> SetRoomState(w1, r), ok |-> TRUE]

\* DELETE /rooms/:id/leave -> [w, ok]
LeaveRoom(w, r, userId) ==
    IF ~RoomExists(w, r) THEN [w |-> w, ok |-> FALSE]
    ELSE IF ~HasPlayerOf(w, r, userId) THEN [w |-> w, ok |-> FALSE]
    ELSE LET w1 == GetRoomState(SetPlayerActive(w, PlayerId(r, userId), FALSE), r)
             others == {i \in ActiveIdx(w1, r) : w1.players[r][i].userId # userId}
             \* findFirst(... orderBy: { joinedAt: 'asc' })
             nextPlayer == CHOOSE i \in others : \A j \in others : i <= j
         IN  IF w.room[r].hostId = userId /\ w.room[r].status = "WAITING"
             THEN IF others # {}
                  THEN [w |-> SetRoomState(
                                [w1 EXCEPT !.room[r].hostId = w1.players[r][nextPlayer].userId], r),
                        ok |-> TRUE]
                  ELSE [w |-> DeleteRoomCodeMapping(
                                DeleteRoomState([w1 EXCEPT !.room[r].status = "FINISHED"], r), r),
                        ok |-> TRUE]
             \* the room state read, from the cache or from the database, is
             \* written back whatever the room's status is
             ELSE [w |-> SetRoomState(w1, r), ok |-> TRUE]

\* DELETE /words/:id: the soft delete.
DeleteWord(w, p) == [w EXCEPT !.wordActive[p] = FALSE]

----------------------------------------------------------------------------
\* Calls in flight.  A handler is one action wherever the properties are
\* about its result; SpecRace splits SUBMIT_VOTE at the first await of
\* submitVote, where the event loop may run another handler.

\* At most this many START_GAME requests of a room's host are followed.
MaxStarts == 2

\* The k-th START_GAME request of user u for room r.
StartCallId(r, u, k) == <<r, u, k>>

StartCallers == {StartCallId(1, 1, k) : k \in 1..MaxStarts}

\* The k-th SUBMIT_VOTE request a client of player u of room r has in flight.
VoteCallId(r, u, k) == <<r, u, k, 0>>

\* The player a SUBMIT_VOTE request comes from.
VoterOf(callId) == PlayerId(callId[1], callId[2])

\* Players whose client sends a request a second time before the first one
\* is answered.
Repeaters == {MIN_PLAYERS}

VoteCallers ==
    {VoteCallId(1, u, 1) : u \in 1..MIN_PLAYERS} \cup {VoteCallId(1, u, 2) : u \in Repeaters}

\* The k-th SUBMIT_CLUE request a client of player u of room r has in flight.
ClueCallId(r, u, k) == <<r, u, k, 1>>

\* Players whose client sends a clue a second time before the first request
\* is answered: one in the middle of the join order, and the last one.
ClueRepeaters == {2, MIN_PLAYERS}

ClueCallers ==
    {ClueCallId(1, u, 1) : u \in 1..MIN_PLAYERS} \cup {ClueCallId(1, u, 2) : u \in ClueRepeaters}

\* The content of the k-th request of a client.
ClueContentOf(callId) == IF callId[3] = 1 THEN <<"h", "i">> ELSE <<" ", "h", "o">>

\* The sockets whose submitVote calls the model follows, the START_GAME
\* requests, and the SUBMIT_VOTE and SUBMIT_CLUE requests followed one by one.
Callers ==
    {PlayerId(1, u) : u \in 1..MIN_PLAYERS} \cup StartCallers \cup VoteCallers \cup ClueCallers

\* pc: "idle", "read" (getGameState has returned `state`; for a START_GAME,
\* room.findUnique has returned `room` with `players`) or "done".
NoCall ==
    [pc |-> "idle", state |-> NoGame, targetId |-> NullId, roundNumber |-> 0,
     ok |-> FALSE, allVoted |-> FALSE, room |-> NoRoom, players |-> <<>>,
     content |-> <<>>]

NoCalls == [c \in Callers |-> NoCall]

\* At most this many calls are between their read and their write at a time.
MaxInFlight == 2

InFlight == {c \in Callers : calls[c].pc = "read"}

----------------------------------------------------------------------------
\* Handlers: one action each

Commit(w) ==
    /\ room' = w.room
    /\ players' = w.players
    /\ rounds' = w.rounds
    /\ wordActive' = w.wordActive
    /\ game' = w.game

\* The socket's data after JOIN_ROOM: it names room r and the player record
\* of the socket's user in r.
SocketJoined(r, playerId) == r \in RoomIds /\ playerId \in RoomPlayerIds(World, r)

\* The bound on rounds: the handler does not run if it would pass MaxRound.
WithinRounds(w) == \A r \in RoomIds : w.game[r].roundNumber <= MaxRound

\* START_GAME
StartGameHandler(r, userId, draws, rnds) ==
    /\ \E pair \in RandomWordPairs(World) :
           IF StartGameRejects(World, r, userId, pair)
           THEN /\ Commit(World)
                /\ last' = Result("startGame", FALSE)
           ELSE \E js \in draws, rnd \in rnds :
                    LET out == StartGame(World, r, userId, pair, js, rnd)
                    IN  /\ Commit(out.w)
                        /\ last' = [Result("startGame", out.ok) EXCEPT
                                      !.words = WordsSent(out.w, r, pair)]
    /\ UNCHANGED <<leaves, calls>>

\* SUBMIT_CLUE
SubmitClueHandler(r, playerId, content) ==
    /\ SocketJoined(r, playerId)
    /\ LET out == IF Trim(content) = <<>> THEN ClueFailure(World)
                  ELSE SubmitClue(World, r, playerId, Trim(content))
       IN  /\ Commit(out.w)
           /\ last' = [Result("submitClue", out.ok) EXCEPT
                         !.votingStarted = out.votingStarted,
                         !.nextPlayerId = out.nextPlayerId]
    /\ UNCHANGED <<leaves, calls>>

\* SUBMIT_VOTE: submitVote, then resolveVotes when it reports allVoted.
SubmitVoteHandler(r, voterId, targetId, rnds) ==
    /\ SocketJoined(r, voterId)
    /\ LET sv == SubmitVote(World, r, voterId, targetId)
       IN  IF ~sv.ok \/ ~sv.allVoted
           THEN /\ Commit(sv.w)
                /\ last' = Result("submitVote", sv.ok)
           ELSE \E pair \in RandomWordPairs(sv.w), rnd \in rnds :
                    LET rv == ResolveVotes(sv.w, r, pair, rnd)
                    IN  /\ WithinRounds(rv.w)
                        /\ Commit(rv.w)
                        /\ last' = [Result("submitVote", TRUE) EXCEPT
                                      !.allVoted = TRUE,
                                      !.threw = rv.res.threw,
                                      !.resolved = ~rv.res.threw,
                                      !.eliminatedPlayerId = rv.res.eliminatedPlayerId,
                                      !.isWhiteHat = rv.res.isWhiteHat,
                                      !.gameOver = rv.res.gameOver,
                                      !.winner = rv.res.winner]
    /\ UNCHANGED <<leaves, calls>>

\* SUBMIT_GUESS
SubmitGuessHandler(r, playerId, guess, rnds) ==
    /\ SocketJoined(r, playerId)
    /\ IF Trim(guess) = <<>> \/ GuessRejects(World, r)
       THEN /\ Commit(World)
            /\ last' = Result("submitGuess", FALSE)
       ELSE \E pair \in RandomWordPairs(World), rnd \in rnds :
                LET out == SubmitWhiteHatGuess(World, r, playerId, Trim(guess), pair, rnd)
                IN  /\ WithinRounds(out.w)
                    /\ Commit(out.w)
                    /\ last' = [Result("submitGuess", out.success) EXCEPT
                                  !.correct = out.correct,
                                  !.correctWord = out.correctWord,
                                  !.whiteHatGuess = IF out.success THEN Trim(guess) ELSE <<>>,
                                  !.gameOver = out.gameOver,
                                  !.winner = out.winner]
    /\ UNCHANGED <<leaves, calls>>

\* POST /rooms/join
JoinHandler(r, userId) ==
    LET out == JoinRoom(World, r, userId)
    IN  /\ Commit(out.w)
        /\ last' = Result("join", out.ok)
        /\ UNCHANGED <<leaves, calls>>

\* DELETE /rooms/:id/leave
LeaveHandler(r, userId) ==
    /\ leaves < MaxLeaves
    /\ LET out == LeaveRoom(World, r, userId)
       IN  /\ Commit(out.w)
           /\ last' = Result("leave", out.ok)
           /\ leaves' = IF out.ok THEN leaves + 1 ELSE leaves
    /\ UNCHANGED calls

\* DELETE /rooms/:id/leave where the requests are not counted: a room that
\* no game is started in has finitely many states.
LeaveLobbyHandler(r, userId) ==
    LET out == LeaveRoom(World, r, userId)
    IN  /\ Commit(out.w)
        /\ last' = Result("leave", out.ok)
        /\ UNCHANGED <<leaves, calls>>

\* DELETE /words/:id
DeleteWordHandler(p) ==
    /\ Commit(DeleteWord(World, p))
    /\ last' = Result("deleteWord", TRUE)
    /\ UNCHANGED <<leaves, calls>>

\* SUBMIT_VOTE up to the first await of submitVote: getGameState has returned
\* the caller's own copy of the session.
SubmitVoteRead(r, voterId, targetId) ==
    /\ SocketJoined(r, voterId)
    /\ voterId \in Callers
    /\ calls[voterId].pc # "read"
    /\ Cardinality(InFlight) < MaxInFlight
    /\ calls' = [calls EXCEPT ![voterId] =
                    [NoCall EXCEPT !.pc = "read",
                                   !.state = GetGameState(World, r),
                                   !.targetId = targetId,
                                   !.roundNumber = GetGameState(World, r).roundNumber]]
    /\ UNCHANGED <<room, players, rounds, wordActive, game, last, leaves>>

\* The rest of SUBMIT_VOTE: submitVote checks and changes the copy it read
\* and writes it back with setGameState; resolveVotes follows on allVoted.
SubmitVoteFinish(r, voterId, rnds) ==
    /\ SocketJoined(r, voterId)
    /\ voterId \in Callers
    /\ calls[voterId].pc = "read"
    /\ LET c == calls[voterId]
           sv == SubmitVote([World EXCEPT !.game[r] = c.state], r, voterId, c.targetId)
           w1 == IF sv.ok THEN SetGameState(World, r, GetGameState(sv.w, r)) ELSE World
           done == [calls EXCEPT ![voterId] =
                      [c EXCEPT !.pc = "done", !.state = NoGame,
                                !.ok = sv.ok, !.allVoted = sv.allVoted]]
       IN  IF ~sv.ok \/ ~sv.allVoted
           THEN /\ Commit(w1)
                /\ last' = Result("submitVote", sv.ok)
                /\ calls' = done
           ELSE \E pair \in RandomWordPairs(w1), rnd \in rnds :
                    LET rv == ResolveVotes(w1, r, pair, rnd)
                    IN  /\ WithinRounds(rv.w)
                        /\ Commit(rv.w)
                        /\ last' = [Result("submitVote", TRUE) EXCEPT
                                      !.allVoted = TRUE,
                                      !.threw = rv.res.threw,
                                      !.resolved = ~rv.res.threw,
                                      !.eliminatedPlayerId = rv.res.eliminatedPlayerId,
                                      !.isWhiteHat = rv.res.isWhiteHat,
                                      !.gameOver = rv.res.gameOver,
                                      !.winner = rv.res.winner]
                        /\ calls' = done
    /\ UNCHANGED leaves

\* SUBMIT_VOTE of the request callId up to the first await of submitVote.
SubmitVoteCallRead(callId, targetId) ==
    /\ callId \in VoteCallers
    /\ SocketJoined(callId[1], VoterOf(callId))
    /\ calls[callId].pc = "idle"
    /\ Cardinality(InFlight) < MaxInFlight
    /\ calls' = [calls EXCEPT ![callId] =
                    [NoCall EXCEPT !.pc = "read",
                                   !.state = GetGameState(World, callId[1]),
                                   !.targetId = targetId,
                                   !.roundNumber = GetGameState(World, callId[1]).roundNumber]]
    /\ UNCHANGED <<room, players, rounds, wordActive, game, last, leaves>>

\* The rest of SUBMIT_VOTE for the request callId.
SubmitVoteCallFinish(callId, rnds) ==
    /\ callId \in VoteCallers
    /\ calls[callId].pc = "read"
    /\ LET r == callId[1]
           c == calls[callId]
           sv == SubmitVote([World EXCEPT !.game[r] = c.state], r, VoterOf(callId), c.targetId)
           w1 == IF sv.ok THEN SetGameState(World, r, GetGameState(sv.w, r)) ELSE World
           done == [calls EXCEPT ![callId] =
                      [c EXCEPT !.pc = "done", !.state = NoGame,
                                !.ok = sv.ok, !.allVoted = sv.allVoted]]
       IN  IF ~sv.ok \/ ~sv.allVoted
           THEN /\ Commit(w1)
                /\ last' = Result("submitVote", sv.ok)
                /\ calls' = done
           ELSE \E pair \in RandomWordPairs(w1), rnd \in rnds :
                    LET rv == ResolveVotes(w1, r, pair, rnd)
                    IN  /\ WithinRounds(rv.w)
                        /\ Commit(rv.w)
                        /\ last' = [Result("submitVote", TRUE) EXCEPT
                                      !.allVoted = TRUE,
                                      !.threw = rv.res.threw,
                                      !.resolved = ~rv.res.threw,
                                      !.eliminatedPlayerId = rv.res.eliminatedPlayerId,
                                      !.isWhiteHat = rv.res.isWhiteHat,
                                      !.gameOver = rv.res.gameOver,
                                      !.winner = rv.res.winner]
                        /\ calls' = done
    /\ UNCHANGED leaves

\* SUBMIT_CLUE of the request callId up to the first await of submitClue:
\* the content is not blank and getGameState has returned the caller's copy.
SubmitClueCallRead(callId, content) ==
    /\ callId \in ClueCallers
    /\ SocketJoined(callId[1], VoterOf(callId))
    /\ Trim(content) # <<>>
    /\ calls[callId].pc = "idle"
    /\ Cardinality(InFlight) < MaxInFlight
    /\ calls' = [calls EXCEPT ![callId] =
                    [NoCall EXCEPT !.pc = "read",
                                   !.state = GetGameState(World, callId[1]),
                                   !.content = Trim(content),
                                   !.roundNumber = GetGameState(World, callId[1]).roundNumber]]
    /\ UNCHANGED <<room, players, rounds, wordActive, game, last, leaves>>

\* The rest of SUBMIT_CLUE for the request callId: submitClue checks and
\* changes the copy it read and writes it back with setGameState.
SubmitClueCallFinish(callId) ==
    /\ callId \in ClueCallers
    /\ calls[callId].pc = "read"
    /\ LET r == callId[1]
           c == calls[callId]
           sc == SubmitClue([World EXCEPT !.game[r] = c.state], r, VoterOf(callId), c.content)
       IN  /\ Commit(IF sc.ok THEN sc.w ELSE World)
           /\ last' = [Result("submitClue", sc.ok) EXCEPT
                         !.votingStarted = sc.votingStarted,
                         !.nextPlayerId = sc.nextPlayerId]
           /\ calls' = [calls EXCEPT ![callId] =
                           [c EXCEPT !.pc = "done", !.state = NoGame, !.ok = sc.ok]]
    /\ UNCHANGED leaves

\* START_GAME up to the first await of startGame: room.findUnique has
\* returned the room and its players.
StartGameRead(callId) ==
    /\ callId \in StartCallers
    /\ calls[callId].pc = "idle"
    /\ calls' = [calls EXCEPT ![callId] =
                    [NoCall EXCEPT !.pc = "read",
                                   !.room = room[callId[1]],
                                   !.players = players[callId[1]]]]
    /\ UNCHANGED <<room, players, rounds, wordActive, game, last, leaves>>

\* tx.round.create({ data: { roomId, roundNumber, ... } }) when the room has
\* a round of that number already: the Round table either takes the second
\* record, or refuses it and the transaction is rolled back.
RoundRecordOutcomes(w, r, roundNumber) ==
    IF HasRound(w, r, roundNumber) THEN {TRUE, FALSE} ELSE {TRUE}

\* What a startGame that read the room as `read` (a world) writes to the
\* store as it is now: the status, the roles of the players it read as
\* active, round 1, the session and the cached room state.
StartGameWrites(w, read, r) ==
    SetRoomState(
        [w EXCEPT
           !.room[r].status = "IN_PROGRESS",
           !.players[r] =
               [i \in DOMAIN w.players[r] |->
                  IF i \in DOMAIN read.players[r] /\ read.players[r][i].role # "NONE"
                  THEN [w.players[r][i] EXCEPT !.role = read.players[r][i].role]
                  ELSE w.players[r][i]],
           !.rounds[r] = Append(@, [roundNumber |-> 1, phase |-> "HINTING"]),
           !.game[r] = read.game[r]], r)

\* The rest of START_GAME: the checks of startGame on the room it read, the
\* word pair, the role shuffle and the writes.
StartGameFinish(callId) ==
    /\ callId \in StartCallers
    /\ calls[callId].pc = "read"
    /\ LET r == callId[1]
           c == calls[callId]
           \* the room as the call read it; the roles are blanked so that the
           \* roles StartGame deals mark the records it updates
           asRead == [World EXCEPT !.room[r] = c.room,
                                   !.players[r] = [i \in DOMAIN c.players |->
                                                     [c.players[i] EXCEPT !.role = "NONE"]]]
           n == Len(ActivePlayerIds(asRead, r))
           \* one outcome of the random sort: the order of the records read
           rnd == [i \in DOMAIN c.players |-> PlayerId(r, c.players[i].userId)]
       IN  \E pair \in RandomWordPairs(World) :
               IF StartGameRejects(asRead, r, callId[2], pair)
               THEN /\ Commit(World)
                    /\ last' = Result("startGame", FALSE)
                    /\ calls' = [calls EXCEPT ![callId] = [NoCall EXCEPT !.pc = "done"]]
               ELSE \E js \in {d \in Draws(n) : \A i \in DOMAIN d : d[i] \in {0, i}},
                       accepted \in RoundRecordOutcomes(World, r, 1) :
                        LET out == StartGame(asRead, r, callId[2], pair, js, rnd)
                        IN  IF accepted
                            THEN /\ Commit(StartGameWrites(World, out.w, r))
                                 /\ last' = [Result("startGame", out.ok) EXCEPT
                                               !.words = WordsSent(StartGameWrites(World, out.w, r),
                                                                   r, pair)]
                                 /\ calls' = [calls EXCEPT ![callId] =
                                                 [NoCall EXCEPT !.pc = "done", !.ok = out.ok]]
                            \* the exception is caught by the handler
                            ELSE /\ Commit(World)
                                 /\ last' = Result("startGame", FALSE)
                                 /\ calls' = [calls EXCEPT ![callId] =
                                                 [NoCall EXCEPT !.pc = "done"]]
    /\ UNCHANGED leaves

----------------------------------------------------------------------------
\* Specification Spec: one room of four players, too few for a WHITE_HAT to
\* be dealt, with every outcome of the role shuffle.

Users == 1..4

\* The room after POST /rooms by `host` and POST /rooms/join by the others.
RoomOf(host, members) ==
    [exists |-> TRUE, hostId |-> host, status |-> "WAITING",
     cached |-> TRUE, codeMapped |-> TRUE]

Joined(members) ==
    [i \in DOMAIN members |-> [userId |-> members[i], isActive |-> TRUE, role |-> "NONE"]]

Init ==
    /\ room = [r \in RoomIds |-> IF r = 1 THEN RoomOf(1, <<1, 2, 3, 4>>) ELSE NoRoom]
    /\ players = [r \in RoomIds |-> IF r = 1 THEN Joined(<<1, 2, 3, 4>>) ELSE <<>>]
    /\ rounds = [r \in RoomIds |-> <<>>]
    /\ wordActive = [p \in WordPairIds |-> TRUE]
    /\ game = [r \in RoomIds |-> NoGame]
    /\ last = Result("createRoom", TRUE)
    /\ leaves = 0
    /\ calls = NoCalls

\* Ids clients send as vote targets.
VoteTargets == {PlayerId(1, 1), GhostId}

ClueContents == {<<"h", "i">>}

\* Users who ask to start a game: the host and another one.
Starters == {1, 2}

\* Users who ask to leave, and to join again.
Leavers == {4}

\* Records of room r in joinedAt order, as ids.
JoinOrder(r) == [i \in DOMAIN players[r] |-> PlayerId(r, players[r][i].userId)]

\* The outcomes of the random sort the model draws: join order, and join
\* order rotated by one.
Orders(r) ==
    {o \in Rotations(JoinOrder(r)) :
        Len(o) = 0 \/ o[1] \in {JoinOrder(r)[1], JoinOrder(r)[Len(o)]}}

StartDraws(r) == Draws(Len(ActivePlayerIds(World, r)))

Next ==
    \/ \E r \in RoomIds, u \in Starters : StartGameHandler(r, u, StartDraws(r), Orders(r))
    \/ \E r \in RoomIds, u \in Users, c \in ClueContents :
           SubmitClueHandler(r, PlayerId(r, u), c)
    \/ \E r \in RoomIds, u \in Users, t \in VoteTargets :
           SubmitVoteHandler(r, PlayerId(r, u), t, Orders(r))
    \/ \E r \in RoomIds, u \in Leavers : JoinHandler(r, u)
    \/ \E r \in RoomIds, u \in Leavers : LeaveHandler(r, u)
    \/ \E p \in WordPairIds : DeleteWordHandler(p)

Spec == Init /\ [][Next]_vars

----------------------------------------------------------------------------
\* Specification SpecWH: one room of six players, so that a WHITE_HAT is
\* dealt; bounded shuffle outcomes.

UsersWH == 1..6

InitWH ==
    /\ room = [r \in RoomIds |-> IF r = 1 THEN RoomOf(1, <<1, 2, 3, 4, 5, 6>>) ELSE NoRoom]
    /\ players = [r \in RoomIds |-> IF r = 1 THEN Joined(<<1, 2, 3, 4, 5, 6>>) ELSE <<>>]
    /\ rounds = [r \in RoomIds |-> <<>>]
    /\ wordActive = [p \in WordPairIds |-> TRUE]
    /\ game = [r \in RoomIds |-> NoGame]
    /\ last = Result("createRoom", TRUE)
    /\ leaves = 0
    /\ calls = NoCalls

VoteTargetsWH == {PlayerId(1, 1)}

GuessesWH == {<<"c", "a", "m">>, <<" ", "C", "a", "M", " ">>, <<"c", "a">>, <<" ">>}

LeaversWH == {2}

\* Players who send a guess: the one the votes go to, and another one.
GuessersWH == {1, 3}

\* Shuffle draws that either leave index i in place or swap it with index 0.
StartDrawsWH(r) ==
    {js \in StartDraws(r) : \A i \in DOMAIN js : js[i] \in {0, i}}

NextWH ==
    \/ \E r \in RoomIds, u \in Starters : StartGameHandler(r, u, StartDrawsWH(r), Orders(r))
    \/ \E r \in RoomIds, u \in UsersWH : SubmitClueHandler(r, PlayerId(r, u), <<"h", "i">>)
    \/ \E r \in RoomIds, u \in UsersWH, t \in VoteTargetsWH :
           SubmitVoteHandler(r, PlayerId(r, u), t, Orders(r))
    \/ \E r \in RoomIds, u \in GuessersWH, g \in GuessesWH :
           SubmitGuessHandler(r, PlayerId(r, u), g, Orders(r))
    \/ \E r \in RoomIds, u \in LeaversWH : LeaveHandler(r, u)
    \/ \E p \in WordPairIds : DeleteWordHandler(p)

SpecWH == InitWH /\ [][NextWH]_vars

----------------------------------------------------------------------------
\* Specification SpecVote: one room of four players whose clients also send
\* the empty string as a vote target.

VoteTargetsV == {PlayerId(1, 1), EmptyId}

ClueContentsV == {<<"h", "i">>, <<" ">>}

\* One shuffle outcome: every index stays in place.
StartDrawsV(r) == {js \in StartDraws(r) : \A i \in DOMAIN js : js[i] = i}

\* One outcome of the random sort: join order.
OrdersV(r) == {JoinOrder(r)}

NextVote ==
    \/ \E r \in RoomIds, u \in Starters : StartGameHandler(r, u, StartDrawsV(r), OrdersV(r))
    \/ \E r \in RoomIds, u \in Users, c \in ClueContentsV :
           SubmitClueHandler(r, PlayerId(r, u), c)
    \/ \E r \in RoomIds, u \in Users, t \in VoteTargetsV :
           SubmitVoteHandler(r, PlayerId(r, u), t, OrdersV(r))

SpecVote == Init /\ [][NextVote]_vars

----------------------------------------------------------------------------
\* Specification SpecWin: checkWinConditions applied to every set of active
\* players of a game of four and of a game of six.

PlayerCounts == {MIN_PLAYERS, WHITE_HAT_MIN_PLAYERS}

\* Player records after role assignment, with the isActive flags `active`.
Dealt(n, js, active) ==
    [i \in 1..n |-> [userId |-> i, isActive |-> i \in active, role |-> AssignRoles(n, js)[i]]]

InitWin ==
    \E n \in PlayerCounts :
        \E js \in {d \in Draws(n) : \A i \in DOMAIN d : d[i] \in {0, i}}, active \in SUBSET (1..n) :
            /\ room = [r \in RoomIds |->
                         IF r = 1 THEN [RoomOf(1, <<>>) EXCEPT !.status = "IN_PROGRESS"]
                         ELSE NoRoom]
            /\ players = [r \in RoomIds |-> IF r = 1 THEN Dealt(n, js, active) ELSE <<>>]
            /\ rounds = [r \in RoomIds |->
                           IF r = 1 THEN <<[roundNumber |-> 1, phase |-> "VOTING"]>> ELSE <<>>]
            /\ wordActive = [p \in WordPairIds |-> TRUE]
            /\ game = [r \in RoomIds |->
                         IF r = 1
                         THEN [NewGameState([i \in 1..n |-> PlayerId(1, i)], 1) EXCEPT
                                 !.phase = "VOTING", !.currentTurnIndex = n]
                         ELSE NoGame]
            /\ last = Result("startGame", TRUE)
            /\ leaves = 0
            /\ calls = NoCalls

\* checkWinConditions(roomId, state) on the stored session of room r.
CheckWinHandler(r) ==
    /\ GetGameState(World, r) # NoGame
    /\ last.op # "checkWinConditions"
    /\ LET out == CheckWinConditions(World, r, GetGameState(World, r))
       IN  last' = [Result("checkWinConditions", TRUE) EXCEPT
                      !.gameOver = out.gameOver, !.winner = out.winner]
    /\ UNCHANGED <<room, players, rounds, wordActive, game, leaves, calls>>

NextWin == \E r \in RoomIds : CheckWinHandler(r)

SpecWin == InitWin /\ [][NextWin]_vars

----------------------------------------------------------------------------
\* Specification SpecRoles: role assignment at the start of a game of every
\* size from MIN_PLAYERS up to one below MAX_PLAYERS, with every outcome of
\* the role shuffle; one player may leave before the start.

PlayerCountsRoles == MIN_PLAYERS..(MAX_PLAYERS - 1)

InitRoles ==
    \E n \in PlayerCountsRoles :
        /\ room = [r \in RoomIds |-> IF r = 1 THEN RoomOf(1, [i \in 1..n |-> i]) ELSE NoRoom]
        /\ players = [r \in RoomIds |-> IF r = 1 THEN Joined([i \in 1..n |-> i]) ELSE <<>>]
        /\ rounds = [r \in RoomIds |-> <<>>]
        /\ wordActive = [p \in WordPairIds |-> TRUE]
        /\ game = [r \in RoomIds |-> NoGame]
        /\ last = Result("createRoom", TRUE)
        /\ leaves = 0
        /\ calls = NoCalls

NextRoles ==
    \/ \E r \in RoomIds, u \in Starters : StartGameHandler(r, u, StartDraws(r), OrdersV(r))
    \/ \E r \in RoomIds, u \in LeaversWH : LeaveHandler(r, u)

SpecRoles == InitRoles /\ [][NextRoles]_vars

----------------------------------------------------------------------------
\* Specification SpecRace: one room of four players whose SUBMIT_VOTE
\* handlers interleave at the await of getGameState.

NextRace ==
    \/ \E r \in RoomIds, u \in Starters : StartGameHandler(r, u, StartDrawsV(r), OrdersV(r))
    \/ \E r \in RoomIds, u \in Users : SubmitClueHandler(r, PlayerId(r, u), <<"h", "i">>)
    \/ \E r \in RoomIds, u \in Users, t \in VoteTargetsWH :
           SubmitVoteRead(r, PlayerId(r, u), t)
    \/ \E r \in RoomIds, u \in Users : SubmitVoteFinish(r, PlayerId(r, u), OrdersV(r))

SpecRace == Init /\ [][NextRace]_vars

----------------------------------------------------------------------------
\* Specification SpecRooms: two rooms of four players each, playing at the
\* same time; a client may name a player of either room as its vote target.

InitRooms ==
    /\ room = [r \in RoomIds |-> RoomOf(1, <<1, 2, 3, 4>>)]
    /\ players = [r \in RoomIds |-> Joined(<<1, 2, 3, 4>>)]
    /\ rounds = [r \in RoomIds |-> <<>>]
    /\ wordActive = [p \in WordPairIds |-> TRUE]
    /\ game = [r \in RoomIds |-> NoGame]
    /\ last = Result("createRoom", TRUE)
    /\ leaves = 0
    /\ calls = NoCalls

\* Ids the clients of room r send as vote targets: the first player of the
\* own room, and from room 1 also the first player of the other room.
VoteTargetsRooms(r) == {PlayerId(q, 1) : q \in r..2}

StartGameOn(r) == StartGameHandler(r, room[r].hostId, StartDrawsV(r), OrdersV(r))

SubmitClueOn(r) == \E u \in Users : SubmitClueHandler(r, PlayerId(r, u), <<"h", "i">>)

SubmitVoteOn(r) ==
    \E u \in Users, t \in VoteTargetsRooms(r) : SubmitVoteHandler(r, PlayerId(r, u), t, OrdersV(r))

NextRooms ==
    \/ \E r \in RoomIds : StartGameOn(r)
    \/ \E r \in RoomIds : SubmitClueOn(r)
    \/ \E r \in RoomIds : SubmitVoteOn(r)

SpecRooms == InitRooms /\ [][NextRooms]_vars

----------------------------------------------------------------------------
\* Specification SpecResolve: resolveVotes applied to a game of four in
\* VOTING with every vote map of the four voters over two targets, the empty
\* map included.

VotersResolve == {PlayerId(1, u) : u \in 1..MIN_PLAYERS}

TargetsResolve == {PlayerId(1, 1), PlayerId(1, 2)}

VoteMaps == UNION {[S -> TargetsResolve] : S \in SUBSET VotersResolve}

InitResolve ==
    \E js \in {d \in Draws(MIN_PLAYERS) : \A i \in DOMAIN d : d[i] \in {0, i}}, V \in VoteMaps :
        /\ room = [r \in RoomIds |->
                     IF r = 1 THEN [RoomOf(1, <<>>) EXCEPT !.status = "IN_PROGRESS"]
                     ELSE NoRoom]
        /\ players = [r \in RoomIds |->
                        IF r = 1 THEN Dealt(MIN_PLAYERS, js, 1..MIN_PLAYERS) ELSE <<>>]
        /\ rounds = [r \in RoomIds |->
                       IF r = 1 THEN <<[roundNumber |-> 1, phase |-> "VOTING"]>> ELSE <<>>]
        /\ wordActive = [p \in WordPairIds |-> TRUE]
        /\ game = [r \in RoomIds |->
                     IF r = 1
                     THEN [NewGameState([i \in 1..MIN_PLAYERS |-> PlayerId(1, i)], 1) EXCEPT
                             !.phase = "VOTING", !.currentTurnIndex = MIN_PLAYERS,
                             !.votes = V]
                     ELSE NoGame]
        /\ last = Result("startGame", TRUE)
        /\ leaves = 0
        /\ calls = NoCalls

\* resolveVotes(roomId) on the stored session of room r.
ResolveHandler(r) ==
    /\ GetGameState(World, r) # NoGame
    /\ GetGameState(World, r).phase = "VOTING"
    /\ \E pair \in RandomWordPairs(World), rnd \in OrdersV(r) :
           LET rv == ResolveVotes(World, r, pair, rnd)
           IN  /\ Commit(rv.w)
               /\ last' = [Result("resolveVotes", ~rv.res.threw) EXCEPT
                             !.threw = rv.res.threw,
                             !.resolved = ~rv.res.threw,
                             !.eliminatedPlayerId = rv.res.eliminatedPlayerId,
                             !.isWhiteHat = rv.res.isWhiteHat,
                             !.gameOver = rv.res.gameOver,
                             !.winner = rv.res.winner]
    /\ UNCHANGED <<leaves, calls>>

NextResolve == \E r \in RoomIds : ResolveHandler(r)

SpecResolve == InitResolve /\ [][NextResolve]_vars

----------------------------------------------------------------------------
\* Specification SpecLobby: a room just created by user 1, which the users
\* join and leave in any order, any number of times; no game is started.

LobbyUsers == 1..4

InitLobby ==
    /\ room = [r \in RoomIds |-> IF r = 1 THEN RoomOf(1, <<1>>) ELSE NoRoom]
    /\ players = [r \in RoomIds |-> IF r = 1 THEN Joined(<<1>>) ELSE <<>>]
    /\ rounds = [r \in RoomIds |-> <<>>]
    /\ wordActive = [p \in WordPairIds |-> TRUE]
    /\ game = [r \in RoomIds |-> NoGame]
    /\ last = Result("createRoom", TRUE)
    /\ leaves = 0
    /\ calls = NoCalls

NextLobby ==
    \/ \E r \in RoomIds, u \in LobbyUsers : JoinHandler(r, u)
    \/ \E r \in RoomIds, u \in LobbyUsers : LeaveLobbyHandler(r, u)

SpecLobby == InitLobby /\ [][NextLobby]_vars

----------------------------------------------------------------------------
\* Specification SpecStart: a room of five players whose host sends START_GAME
\* more than once; the handlers interleave at the await of room.findUnique,
\* and a player may leave in between.

UsersStart == 1..5

InitStart ==
    /\ room = [r \in RoomIds |-> IF r = 1 THEN RoomOf(1, <<1, 2, 3, 4, 5>>) ELSE NoRoom]
    /\ players = [r \in RoomIds |-> IF r = 1 THEN Joined(<<1, 2, 3, 4, 5>>) ELSE <<>>]
    /\ rounds = [r \in RoomIds |-> <<>>]
    /\ wordActive = [p \in WordPairIds |-> TRUE]
    /\ game = [r \in RoomIds |-> NoGame]
    /\ last = Result("createRoom", TRUE)
    /\ leaves = 0
    /\ calls = NoCalls

LeaversStart == {5}

NextStart ==
    \/ \E c \in StartCallers : StartGameRead(c)
    \/ \E c \in StartCallers : StartGameFinish(c)
    \/ \E r \in RoomIds, u \in LeaversStart : LeaveHandler(r, u)
    \/ \E r \in RoomIds, u \in UsersStart : SubmitClueHandler(r, PlayerId(r, u), <<"h", "i">>)
    \/ \E r \in RoomIds, u \in UsersStart, t \in VoteTargetsWH :
           SubmitVoteHandler(r, PlayerId(r, u), t, OrdersV(r))

SpecStart == InitStart /\ [][NextStart]_vars

----------------------------------------------------------------------------
\* Specification SpecTwice: one room of four players whose SUBMIT_VOTE
\* requests interleave at the await of getGameState; the client of one player
\* may have two requests in flight.

NextTwice ==
    \/ \E r \in RoomIds : StartGameHandler(r, room[r].hostId, StartDrawsV(r), OrdersV(r))
    \/ \E r \in RoomIds, u \in Users : SubmitClueHandler(r, PlayerId(r, u), <<"h", "i">>)
    \/ \E c \in VoteCallers, t \in VoteTargetsWH : SubmitVoteCallRead(c, t)
    \/ \E c \in VoteCallers : SubmitVoteCallFinish(c, OrdersV(c[1]))

SpecTwice == Init /\ [][NextTwice]_vars

----------------------------------------------------------------------------
\* Specification SpecStatus: a room just created by user 1, which the users
\* join and leave at any time; the host starts a game, which is played with
\* one outcome of the shuffles.

\* Users who ask to leave: the creator of the room and the last one to join.
LeaversStatus == {1, 4}

NextStatus ==
    \/ \E r \in RoomIds, u \in LobbyUsers : JoinHandler(r, u)
    \/ \E r \in RoomIds, u \in LeaversStatus : LeaveLobbyHandler(r, u)
    \/ \E r \in RoomIds : StartGameHandler(r, room[r].hostId, StartDrawsV(r), OrdersV(r))
    \/ \E r \in RoomIds, u \in LobbyUsers : SubmitClueHandler(r, PlayerId(r, u), <<"h", "i">>)
    \/ \E r \in RoomIds, u \in LobbyUsers, t \in VoteTargetsWH :
           SubmitVoteHandler(r, PlayerId(r, u), t, OrdersV(r))

SpecStatus == InitLobby /\ [][NextStatus]_vars

----------------------------------------------------------------------------
\* Specification SpecClues: one room of four players whose SUBMIT_CLUE
\* requests interleave at the await of getGameState; the client of a player
\* may have two requests in flight, with different contents.

NextClues ==
    \/ \E r \in RoomIds : StartGameHandler(r, room[r].hostId, StartDrawsV(r), OrdersV(r))
    \/ \E c \in ClueCallers : SubmitClueCallRead(c, ClueContentOf(c))
    \/ \E c \in ClueCallers : SubmitClueCallFinish(c)
    \/ \E r \in RoomIds, u \in Users, t \in VoteTargetsWH :
           SubmitVoteHandler(r, PlayerId(r, u), t, OrdersV(r))

SpecClues == Init /\ [][NextClues]_vars

----------------------------------------------------------------------------
\* Vocabulary of the properties

HasSession(r) == game[r].phase # "NONE"

ActiveIds(r) ==
    {PlayerId(r, players[r][i].userId) : i \in {k \in DOMAIN players[r] : players[r][k].isActive}}

RecordsOf(id) == {i \in DOMAIN players[id[1]] : players[id[1]][i].userId = id[2]}

IsPlayer(id) == Len(id) = 2 /\ id[1] \in RoomIds /\ RecordsOf(id) # {}

RoleOfId(id) == players[id[1]][CHOOSE i \in RecordsOf(id) : TRUE].role

IsPermutationOf(s, S) == Len(s) = Cardinality(S) /\ {s[i] : i \in DOMAIN s} = S

IsPrefix(s, t) == Len(s) <= Len(t) /\ \A i \in DOMAIN s : s[i] = t[i]

AnyWordPairActive == \E p \in WordPairIds : wordActive[p]

\* The number of votes of the map V that name target t.
Tally(V, t) == Cardinality({v \in DOMAIN V : V[v] = t})

\* The targets of V no other target has more votes than.
Leaders(V) ==
    {t \in {V[v] : v \in DOMAIN V} : \A x \in DOMAIN V : Tally(V, V[x]) <= Tally(V, t)}

\* The votes resolveVotes reads when voter's vote for target completes them.
VotesWith(r, voter, target) ==
    [v \in DOMAIN game[r].votes \cup {voter} |->
       IF v = voter THEN target ELSE game[r].votes[v]]

\* The guess is the civilian word of the session of room r, up to case and
\* surrounding blanks.
GuessIsRight(r, g) ==
    ToLowerCase(Trim(g)) = ToLowerCase(Trim(WordCatalogue[game[r].wordPairId].wordA))

----------------------------------------------------------------------------
\* Properties of Spec

\* The unique-leader case of C1 for the votes V: the leader, a player, is
\* marked inactive, reported, and last in the session's eliminated list.
UniqueLeaderEliminated(r, V) ==
    LET e == CHOOSE t \in Leaders(V) : TRUE
    IN  /\ last'.eliminatedPlayerId = e
        /\ e \notin ActiveIds(r)'
        /\ HasSession(r)' =>
               /\ game'[r].eliminatedPlayers # <<>>
               /\ game'[r].eliminatedPlayers[Len(game'[r].eliminatedPlayers)] = e

\* The tie case of C1: nobody is eliminated and the next round starts.
TieStartsNextRound(r) ==
    /\ last'.eliminatedPlayerId = NullId
    /\ players' = players
    /\ HasSession(r)'
    /\ game'[r].eliminatedPlayers = game[r].eliminatedPlayers
    /\ game'[r].roundNumber = game[r].roundNumber + 1
    /\ game'[r].phase = "HINTING"

\* C1: when the last outstanding vote arrives, resolveVotes eliminates the
\* unique player with the highest vote count (marks them inactive and appends
\* them to the eliminated list); when two or more targets tie for the highest
\* count nobody is eliminated, the round number goes up by one and the phase
\* returns to HINTING.
C1_ResolveVotesOutcome ==
    [][\A r \in RoomIds, u \in Users, t \in VoteTargets :
          LET V == VotesWith(r, PlayerId(r, u), t)
          IN  (SubmitVoteHandler(r, PlayerId(r, u), t, Orders(r)) /\ last'.allVoted) =>
                  /\ (Cardinality(Leaders(V)) = 1 /\ \A e \in Leaders(V) : IsPlayer(e)) =>
                         UniqueLeaderEliminated(r, V)
                  /\ Cardinality(Leaders(V)) > 1 => TieStartsNextRound(r)]_vars

\* The conditions under which submitClue may succeed, on the current state.
ClueAllowed(r, playerId) ==
    /\ HasSession(r)
    /\ game[r].phase = "HINTING"
    /\ game[r].currentTurnIndex < Len(game[r].turnOrder)
    /\ game[r].turnOrder[game[r].currentTurnIndex + 1] = playerId

\* C6: submitClue succeeds only when the session exists, the phase is HINTING
\* and the caller is the player at the turn cursor; in every other case it
\* reports failure and leaves sessions, rounds, players and rooms unchanged.
C6_SubmitClueGuard ==
    [][\A r \in RoomIds, u \in Users, c \in ClueContents :
          SubmitClueHandler(r, PlayerId(r, u), c) =>
              /\ last'.ok => ClueAllowed(r, PlayerId(r, u))
              /\ ~ClueAllowed(r, PlayerId(r, u)) =>
                     /\ ~last'.ok
                     /\ UNCHANGED <<game, rounds, players, room>>]_vars

\* A request was rejected while the second player of the turn order is
\* expected to give a clue.
C6_Witness ==
    /\ HasSession(1)
    /\ game[1].phase = "HINTING"
    /\ game[1].currentTurnIndex = 1
    /\ Len(game[1].clues) = 1
    /\ last = NoResult

\* In HINTING the cursor is inside the turn order and not on an eliminated
\* player.
CursorOnPlayerInGame ==
    \A r \in RoomIds :
        (HasSession(r) /\ game[r].phase = "HINTING") =>
            /\ game[r].currentTurnIndex < Len(game[r].turnOrder)
            /\ game[r].turnOrder[game[r].currentTurnIndex + 1]
                   \notin {game[r].eliminatedPlayers[i] : i \in DOMAIN game[r].eliminatedPlayers}

\* A successful submitClue moves the cursor forward, and the phase is VOTING
\* afterwards exactly when the cursor is past the end of the turn order.
ClueAdvancesCursor ==
    \A r \in RoomIds, u \in Users, c \in ClueContents :
        (SubmitClueHandler(r, PlayerId(r, u), c) /\ last'.ok) =>
            /\ game'[r].currentTurnIndex > game[r].currentTurnIndex
            /\ game'[r].phase \in {"HINTING", "VOTING"}
            /\ game'[r].phase = "VOTING" <=>
                   game'[r].currentTurnIndex >= Len(game'[r].turnOrder)

\* C7: during HINTING the turn cursor never indexes an eliminated player; a
\* successful submitClue strictly increases the cursor or moves the phase to
\* VOTING, and the phase becomes VOTING exactly when the cursor has passed the
\* end of the turn order.
C7_TurnCursor == []CursorOnPlayerInGame /\ [][ClueAdvancesCursor]_vars

\* The last clue of the second round has just moved the game to VOTING, with
\* a player eliminated.
C7_Witness ==
    /\ last.op = "submitClue"
    /\ last.votingStarted
    /\ game[1].phase = "VOTING"
    /\ game[1].roundNumber = 2
    /\ game[1].eliminatedPlayers # <<>>
    /\ game[1].currentTurnIndex = Len(game[1].turnOrder)

\* The conditions under which startGame may succeed, on the current state.
StartAllowed(r, userId) ==
    /\ room[r].exists
    /\ room[r].hostId = userId
    /\ room[r].status = "WAITING"
    /\ Cardinality(ActiveIds(r)) >= MIN_PLAYERS
    /\ AnyWordPairActive

\* C8: startGame fails and changes nothing when the room does not exist, the
\* caller is not the host, the room is not WAITING, fewer than four players
\* are active, or no word pair is available.
C8_StartGameRejects ==
    [][\A r \in RoomIds, u \in Starters :
          (StartGameHandler(r, u, StartDraws(r), Orders(r)) /\ ~StartAllowed(r, u)) =>
              /\ ~last'.ok
              /\ UNCHANGED <<room, players, rounds, game, wordActive>>]_vars

\* A request was rejected in a WAITING room that has too few active players
\* and no word pair left.
C8_Witness ==
    /\ room[1].status = "WAITING"
    /\ Cardinality(ActiveIds(1)) < MIN_PLAYERS
    /\ ~AnyWordPairActive
    /\ last = NoResult

\* C10: a round advancement adds one to the round number, sets the phase to
\* HINTING and the cursor to 0, empties clues and votes, makes the turn order
\* a permutation of the currently active players and leaves the eliminated
\* list as the resolution handed it over; while a session lives its eliminated
\* list only grows.
C10_RoundAdvancement ==
    [][\A r \in RoomIds :
          (HasSession(r) /\ HasSession(r)') =>
              /\ IsPrefix(game[r].eliminatedPlayers, game'[r].eliminatedPlayers)
              /\ game'[r].roundNumber # game[r].roundNumber =>
                     /\ game'[r].roundNumber = game[r].roundNumber + 1
                     /\ game'[r].phase = "HINTING"
                     /\ game'[r].currentTurnIndex = 0
                     /\ game'[r].clues = <<>>
                     /\ DOMAIN game'[r].votes = {}
                     /\ IsPermutationOf(game'[r].turnOrder, ActiveIds(r)')
                     /\ game'[r].eliminatedPlayers =
                            IF last'.eliminatedPlayerId = NullId
                            THEN game[r].eliminatedPlayers
                            ELSE Append(game[r].eliminatedPlayers, last'.eliminatedPlayerId)]_vars

\* The second round has just started after an elimination, with the three
\* remaining players in its turn order.
C10_Witness ==
    /\ last.op = "submitVote"
    /\ last.eliminatedPlayerId # NullId
    /\ game[1].roundNumber = 2
    /\ game[1].phase = "HINTING"
    /\ game[1].eliminatedPlayers = <<last.eliminatedPlayerId>>
    /\ Len(game[1].turnOrder) = 3

\* C22: no engine operation ends by raising an exception: a failure, a
\* top-voted target that is no existing player included, is a returned value.
C22_NoFaultRaised == ~last.threw

\* C23: with no word pair available an operation that needs one signals the
\* failure and changes nothing: startGame fails with the session store and the
\* players as before; a vote resolution that has to start the next round
\* reports no resolution and leaves the players and, but for the vote just
\* recorded, the session as before.
C23_NoWordPairNoMutation ==
    [][~AnyWordPairActive =>
          /\ \A r \in RoomIds, u \in Starters :
                 StartGameHandler(r, u, StartDraws(r), Orders(r)) =>
                     /\ ~last'.ok
                     /\ game' = game
                     /\ players' = players
          /\ \A r \in RoomIds, u \in Users, t \in VoteTargets :
                 (/\ SubmitVoteHandler(r, PlayerId(r, u), t, Orders(r))
                  /\ last'.allVoted
                  /\ ~last'.gameOver
                  /\ ~last'.isWhiteHat) =>
                     /\ ~last'.resolved
                     /\ players' = players
                     /\ game'[r] = [game[r] EXCEPT !.votes = VotesWith(r, PlayerId(r, u), t)]]_vars

\* C24: while a room is WAITING or IN_PROGRESS its host reference names a
\* player of the room who is active, and exactly one active player is the
\* host.
C24_HostIsActivePlayer ==
    \A r \in RoomIds :
        (room[r].exists /\ room[r].status # "FINISHED") =>
            Cardinality({i \in DOMAIN players[r] :
                            /\ players[r][i].isActive
                            /\ players[r][i].userId = room[r].hostId}) = 1

C18_AllVotedIffActiveVoted ==
    [][\A r \in RoomIds, u \in Users, t \in VoteTargets :
          (SubmitVoteHandler(r, PlayerId(r, u), t, Orders(r)) /\ last'.ok) =>
              (last'.allVoted <=>
                  \A id \in ActiveIds(r) \ Range(game[r].eliminatedPlayers) :
                      id \in DOMAIN VotesWith(r, PlayerId(r, u), t))]_vars

----------------------------------------------------------------------------
\* Properties of SpecWH

\* C3: when the player the vote eliminates is the WHITE_HAT, the phase becomes
\* GUESSING, no win condition is evaluated (the game is not over and the room
\* keeps its status, whatever the roles still active), the round number and
\* the turn order stay as they were, and the session still exists.
C3_WhiteHatEliminated ==
    [][\A r \in RoomIds :
          LET e == last'.eliminatedPlayerId
          IN  (/\ HasSession(r)
               /\ game[r].phase = "VOTING"
               /\ last'.op = "submitVote"
               /\ IsPlayer(e)
               /\ e[1] = r
               /\ RoleOfId(e) = "WHITE_HAT") =>
                  /\ HasSession(r)'
                  /\ game'[r].phase = "GUESSING"
                  /\ game'[r].roundNumber = game[r].roundNumber
                  /\ game'[r].turnOrder = game[r].turnOrder
                  /\ game'[r].eliminatedPlayers = Append(game[r].eliminatedPlayers, e)
                  /\ e \notin ActiveIds(r)'
                  /\ ~last'.gameOver
                  /\ last'.winner = "NONE"
                  /\ room'[r] = room[r]]_vars

\* The WHITE_HAT has just been voted out while no BLACK_HAT is active, and the
\* game goes on in GUESSING.
C3_Witness ==
    /\ last.op = "submitVote"
    /\ last.isWhiteHat
    /\ game[1].phase = "GUESSING"
    /\ room[1].status = "IN_PROGRESS"
    /\ \A id \in ActiveIds(1) : RoleOfId(id) # "BLACK_HAT"

\* The outcomes C4 allows for a guess that is not the civilian word: the game
\* ends with the side the win conditions name, or the next round starts.
WrongGuessOutcome(r) ==
    \/ /\ ~HasSession(r)'
       /\ last'.gameOver
       /\ last'.winner \in {"BLACK_HAT", "CIVILIAN"}
       /\ room'[r].status = "FINISHED"
    \/ /\ HasSession(r)'
       /\ ~last'.gameOver
       /\ game'[r].roundNumber = game[r].roundNumber + 1
       /\ game'[r].phase = "HINTING"

\* C4: in phase GUESSING a correct guess ends the game at once with winner
\* WHITE_HAT; an incorrect guess evaluates the win conditions and either ends
\* the game with that winner or starts the next round. Outside GUESSING, or
\* with no session, the guess fails and changes nothing.
C4_WhiteHatGuess ==
    [][\A r \in RoomIds, u \in GuessersWH, g \in GuessesWH :
          (SubmitGuessHandler(r, PlayerId(r, u), g, Orders(r)) /\ Trim(g) # <<>>) =>
              IF HasSession(r) /\ game[r].phase = "GUESSING"
              THEN IF GuessIsRight(r, g)
                   THEN /\ ~HasSession(r)'
                        /\ last'.gameOver
                        /\ last'.winner = "WHITE_HAT"
                        /\ room'[r].status = "FINISHED"
                   ELSE WrongGuessOutcome(r)
              ELSE /\ ~last'.ok
                   /\ UNCHANGED <<game, room, players, rounds>>]_vars

\* C21: every successful submitWhiteHatGuess, right or wrong, returns the
\* civilian word (wordA of the session's word pair) in its response.
C21_GuessRevealsWord ==
    [][\A r \in RoomIds, u \in GuessersWH, g \in GuessesWH :
          (last'.ok /\ SubmitGuessHandler(r, PlayerId(r, u), g, Orders(r))) =>
              last'.correctWord = WordCatalogue[game[r].wordPairId].wordA]_vars

\* C30: the white hat's guess is matched without regard to case and to
\* leading and trailing blanks and is otherwise exact: it is judged correct
\* if and only if trim(lowercase(guess)) = trim(lowercase(wordA)) for the
\* session's word pair.
C30_GuessMatching ==
    [][\A r \in RoomIds, u \in GuessersWH, g \in GuessesWH :
          (last'.ok /\ SubmitGuessHandler(r, PlayerId(r, u), g, Orders(r))) =>
              (last'.correct <=>
                  Trim(ToLowerCase(g)) =
                      Trim(ToLowerCase(WordCatalogue[game[r].wordPairId].wordA)))]_vars

\* The guess "CaM", sent with blanks around it, was judged correct.
C30_Witness ==
    /\ last.op = "submitGuess"
    /\ last.correct
    /\ last.whiteHatGuess = <<"C", "a", "M">>

\* C9: a successful startGame sets the room to IN_PROGRESS, gives every active
\* player exactly one role, creates round 1 and a session with round number 1,
\* phase HINTING, cursor 0, no clues, no votes, no eliminated players, and a
\* turn order that is a permutation of the active player ids.
C9_StartGameEffect ==
    [][\A r \in RoomIds, u \in Starters :
          (StartGameHandler(r, u, StartDrawsWH(r), Orders(r)) /\ last'.ok) =>
              /\ room'[r].status = "IN_PROGRESS"
              /\ \A i \in DOMAIN players'[r] :
                     players'[r][i].isActive =>
                         players'[r][i].role \in {"CIVILIAN", "BLACK_HAT", "WHITE_HAT"}
              /\ ActiveIds(r)' = ActiveIds(r)
              /\ rounds'[r] = <<[roundNumber |-> 1, phase |-> "HINTING"]>>
              /\ game'[r].roundNumber = 1
              /\ game'[r].phase = "HINTING"
              /\ game'[r].currentTurnIndex = 0
              /\ game'[r].clues = <<>>
              /\ DOMAIN game'[r].votes = {}
              /\ game'[r].eliminatedPlayers = <<>>
              /\ IsPermutationOf(game'[r].turnOrder, ActiveIds(r)')]_vars

\* A game has just started in a room one of whose six players had left.
C9_Witness ==
    /\ last.op = "startGame"
    /\ last.ok
    /\ Cardinality(ActiveIds(1)) = 5
    /\ Len(players[1]) = 6
    /\ game[1].roundNumber = 1
    /\ Len(game[1].turnOrder) = 5

\* A step of one of the three in-game handlers on room r.
InGameRequest(r) ==
    \/ \E u \in UsersWH : SubmitClueHandler(r, PlayerId(r, u), <<"h", "i">>)
    \/ \E u \in UsersWH, t \in VoteTargetsWH : SubmitVoteHandler(r, PlayerId(r, u), t, Orders(r))
    \/ \E u \in GuessersWH, g \in GuessesWH : SubmitGuessHandler(r, PlayerId(r, u), g, Orders(r))

\* C11: when a win condition is reached, through resolveVotes or through
\* submitWhiteHatGuess, the room becomes FINISHED and the session is deleted;
\* from then on the room stays FINISHED without a session, and every
\* submitClue, submitVote and submitWhiteHatGuess on it fails and changes
\* nothing.
C11_GameOverIsFinal ==
    [][\A r \in RoomIds :
          /\ (HasSession(r) /\ last'.gameOver) =>
                 (room'[r].status = "FINISHED" /\ ~HasSession(r)')
          /\ (room[r].status = "FINISHED") =>
                 /\ room'[r].status = "FINISHED"
                 /\ ~HasSession(r)
                 /\ ~HasSession(r)'
                 /\ InGameRequest(r) =>
                        /\ ~last'.ok
                        /\ UNCHANGED <<game, room, players, rounds>>]_vars

\* A request was rejected in a finished room in which civilians are active and
\* the BLACK_HAT and the WHITE_HAT are not.
C11_Witness ==
    /\ room[1].status = "FINISHED"
    /\ ~HasSession(1)
    /\ rounds[1][Len(rounds[1])].phase = "RESULT"
    /\ \E id \in ActiveIds(1) : RoleOfId(id) = "CIVILIAN"
    /\ \A id \in ActiveIds(1) : RoleOfId(id) # "BLACK_HAT"
    /\ \E i \in DOMAIN players[1] : players[1][i].role = "WHITE_HAT" /\ ~players[1][i].isActive
    /\ last = NoResult

\* The place of a phase in the order HINTING, VOTING, GUESSING, RESULT.
PhaseRank(phase) ==
    CASE phase = "HINTING" -> 1
      [] phase = "VOTING" -> 2
      [] phase = "GUESSING" -> 3
      [] phase = "RESULT" -> 4
      [] OTHER -> 0

\* C12: within one round number the phase of the session, and of each round
\* record, never moves backwards in the order HINTING, VOTING, GUESSING,
\* RESULT; the session's phase returns to HINTING only in a step that adds
\* one to the round number.
C12_PhaseMonotonic ==
    [][\A r \in RoomIds :
          /\ (HasSession(r) /\ HasSession(r)') =>
                 /\ game'[r].roundNumber = game[r].roundNumber =>
                        PhaseRank(game'[r].phase) >= PhaseRank(game[r].phase)
                 /\ (game'[r].phase = "HINTING" /\ game[r].phase # "HINTING") =>
                        game'[r].roundNumber = game[r].roundNumber + 1
          /\ \A i \in DOMAIN rounds[r] :
                 /\ i \in DOMAIN rounds'[r]
                 /\ rounds'[r][i].roundNumber = rounds[r][i].roundNumber
                 /\ PhaseRank(rounds'[r][i].phase) >= PhaseRank(rounds[r][i].phase)]_vars

\* The second round has started after a wrong guess, its record beside the
\* first round's, which stays at GUESSING.
C12_Witness ==
    /\ last.op = "submitGuess"
    /\ game[1].roundNumber = 2
    /\ game[1].phase = "HINTING"
    /\ Len(rounds[1]) = 2
    /\ rounds[1][1].phase = "GUESSING"

\* C15: in every game that ends with winner CIVILIAN, neither a BLACK_HAT nor
\* a WHITE_HAT is active at the moment the game ends.
C15_CivilianWinNeedsBothOut ==
    (last.gameOver /\ last.winner = "CIVILIAN") =>
        \A id \in ActiveIds(1) : RoleOfId(id) \notin {"BLACK_HAT", "WHITE_HAT"}

----------------------------------------------------------------------------
\* Properties of SpecVote

\* C5: a second submitVote of a voter in the same round fails and leaves the
\* vote map as it was after the voter's first vote, whatever the voter and the
\* targets are.
C5_SecondVoteRejected ==
    [][\A r \in RoomIds, u \in Users, t \in VoteTargetsV :
          (/\ SubmitVoteHandler(r, PlayerId(r, u), t, OrdersV(r))
           /\ HasSession(r)
           /\ game[r].phase = "VOTING"
           /\ PlayerId(r, u) \in DOMAIN game[r].votes) =>
              /\ ~last'.ok
              /\ game' = game]_vars

\* The conditions under which submitVote may succeed, on the current state.
VoteAllowed(r, voterId) ==
    /\ HasSession(r)
    /\ game[r].phase = "VOTING"
    /\ voterId \notin Range(game[r].eliminatedPlayers)
    /\ voterId \notin DOMAIN game[r].votes

\* C19: submitVote succeeds only if a session exists, the phase is VOTING, the
\* voter is not eliminated and has no vote recorded in the round; otherwise it
\* fails and the vote map is unchanged; under those conditions it succeeds
\* for any target id, the voter's own included.
C19_SubmitVoteGuard ==
    [][\A r \in RoomIds, u \in Users, t \in VoteTargetsV :
          SubmitVoteHandler(r, PlayerId(r, u), t, OrdersV(r)) =>
              /\ last'.ok => VoteAllowed(r, PlayerId(r, u))
              /\ ~VoteAllowed(r, PlayerId(r, u)) => ~last'.ok /\ game' = game
              /\ VoteAllowed(r, PlayerId(r, u)) => last'.ok]_vars

----------------------------------------------------------------------------
\* Properties of SpecRoles

\* The number of active players of room 1 that hold the role.
RoleCount(role) == Cardinality({id \in ActiveIds(1) : RoleOfId(id) = role})

\* A game of room 1 has just been started.
JustStarted == last.op = "startGame" /\ last.ok

\* The roles of the active players are one BLACK_HAT, whiteHats WHITE_HATs
\* and CIVILIAN for everybody else.
RolesAre(whiteHats) ==
    /\ RoleCount("BLACK_HAT") = 1
    /\ RoleCount("WHITE_HAT") = whiteHats
    /\ RoleCount("CIVILIAN") = Cardinality(ActiveIds(1)) - 1 - whiteHats

\* C13 as stated: for every player count n with 4 <= n < 8 the roles dealt
\* are n roles with exactly one BLACK_HAT, a WHITE_HAT if and only if n > 6,
\* and n - 1 - (1 if n > 6 else 0) CIVILIANs.
C13_RolesAsStated ==
    (JustStarted /\ Cardinality(ActiveIds(1)) \in PlayerCountsRoles) =>
        RolesAre(IF Cardinality(ActiveIds(1)) > WHITE_HAT_MIN_PLAYERS THEN 1 ELSE 0)

\* C13 amended: for every player count n with 4 <= n < 8 the roles dealt are
\* n roles with exactly one BLACK_HAT, a WHITE_HAT if and only if n >= 6, and
\* n - 1 - (1 if n >= 6 else 0) CIVILIANs.
C13_RolesByCount ==
    (JustStarted /\ Cardinality(ActiveIds(1)) \in PlayerCountsRoles) =>
        RolesAre(IF Cardinality(ActiveIds(1)) >= WHITE_HAT_MIN_PLAYERS THEN 1 ELSE 0)

\* A game of exactly six players has just started with a WHITE_HAT in it.
C13_Witness ==
    /\ JustStarted
    /\ Len(players[1]) = WHITE_HAT_MIN_PLAYERS
    /\ Cardinality(ActiveIds(1)) = WHITE_HAT_MIN_PLAYERS
    /\ RoleCount("WHITE_HAT") = 1

\* C14: a WHITE_HAT is dealt at game start only when more than five players
\* are active; with four or five active players the roles are exactly one
\* BLACK_HAT and CIVILIAN for all the others.
C14_NoWhiteHatBelowSix ==
    JustStarted =>
        /\ RoleCount("WHITE_HAT") > 0 => Cardinality(ActiveIds(1)) >= WHITE_HAT_MIN_PLAYERS
        /\ Cardinality(ActiveIds(1)) < WHITE_HAT_MIN_PLAYERS =>
               /\ RoleCount("BLACK_HAT") = 1
               /\ RoleCount("WHITE_HAT") = 0
               /\ \A id \in ActiveIds(1) : RoleOfId(id) \in {"BLACK_HAT", "CIVILIAN"}

\* A game has just started with five active players, the sixth having left,
\* and nobody is the WHITE_HAT.
C14_Witness ==
    /\ JustStarted
    /\ Len(players[1]) = 6
    /\ Cardinality(ActiveIds(1)) = 5
    /\ RoleCount("WHITE_HAT") = 0
    /\ RoleCount("CIVILIAN") = 4

----------------------------------------------------------------------------
\* Properties of SpecRace

\* The calls that returned success in the round the session of room 1 is in.
VotedThisRound ==
    {v \in Callers : /\ calls[v].pc = "done"
                     /\ calls[v].ok
                     /\ calls[v].roundNumber = game[1].roundNumber}

\* C16: submitVote calls that overlap behave as if they ran one after the
\* other: while the round is open every vote that was accepted is in the vote
\* map, with its target (no lost update), and at most one call of the round
\* has reported allVoted.
C16_VotesSerialized ==
    (HasSession(1) /\ game[1].phase = "VOTING") =>
        /\ \A v \in VotedThisRound :
               /\ v \in DOMAIN game[1].votes
               /\ game[1].votes[v] = calls[v].targetId
        /\ Cardinality({v \in VotedThisRound : calls[v].allVoted}) <= 1

----------------------------------------------------------------------------
\* Properties of SpecRooms

\* C17: operations on different rooms are independent: a START_GAME,
\* SUBMIT_CLUE or SUBMIT_VOTE of room a changes neither the session nor the
\* status of another room b, nor the active flag or role of b's players.
C17_RoomsIndependent ==
    [][\A a \in RoomIds : \A b \in RoomIds \ {a} :
          (StartGameOn(a) \/ SubmitClueOn(a) \/ SubmitVoteOn(a)) =>
              /\ game'[b] = game[b]
              /\ room'[b] = room[b]
              /\ players'[b] = players[b]]_vars

----------------------------------------------------------------------------
\* Properties of SpecResolve

\* C20: resolveVotes on an empty vote map (all abstain, maximum count 0)
\* eliminates nobody and goes on to the next round: round number up by one,
\* phase HINTING.
C20_AllAbstainNextRound ==
    [][\A r \in RoomIds :
          (ResolveHandler(r) /\ DOMAIN game[r].votes = {}) =>
              /\ ~last'.threw
              /\ players' = players
              /\ game'[r].eliminatedPlayers = game[r].eliminatedPlayers
              /\ game'[r].roundNumber = game[r].roundNumber + 1
              /\ game'[r].phase = "HINTING"]_vars

----------------------------------------------------------------------------
\* Properties of SpecLobby

\* Each user has at most one player record in room r.
OneRecordPerUser(r) ==
    \A i, j \in DOMAIN players[r] : players[r][i].userId = players[r][j].userId => i = j

HasRecord(r, userId) == \E i \in DOMAIN players[r] : players[r][i].userId = userId

\* C25: after any sequence of joins and leaves each user has at most one
\* player record per room; a join by a user who has a record in the room adds
\* no record and, when accepted, leaves that record active.
C25_JoinReusesRecord ==
    [][/\ \A r \in RoomIds : OneRecordPerUser(r) /\ OneRecordPerUser(r)'
       /\ \A r \in RoomIds, u \in LobbyUsers :
              (JoinHandler(r, u) /\ HasRecord(r, u)) =>
                  /\ Len(players'[r]) = Len(players[r])
                  /\ last'.ok =>
                         \E i \in DOMAIN players'[r] :
                             players'[r][i].userId = u /\ players'[r][i].isActive]_vars

\* An accepted join has left two records, both active, in a room whose host
\* is user 2: user 1 left and a user with a record joined again.
C25_Witness ==
    /\ last.op = "join"
    /\ last.ok
    /\ Len(players[1]) = 2
    /\ room[1].hostId = 2
    /\ \A i \in DOMAIN players[1] : players[1][i].isActive

\* The records of room r that stay active when userId leaves.
Remaining(r, userId) ==
    {i \in DOMAIN players[r] : players[r][i].isActive /\ players[r][i].userId # userId}

\* C26: when the host leaves a WAITING room and another active player
\* remains, the host reference moves to the earliest-joined of them and the
\* room stays WAITING; when none remains the room becomes FINISHED and its
\* cached state and code mapping are removed.
C26_HostLeavesWaitingRoom ==
    [][\A r \in RoomIds, u \in LobbyUsers :
          (/\ LeaveLobbyHandler(r, u)
           /\ last'.ok
           /\ room[r].hostId = u
           /\ room[r].status = "WAITING") =>
              IF Remaining(r, u) # {}
              THEN /\ \E i \in Remaining(r, u) :
                         /\ \A j \in Remaining(r, u) : i <= j
                         /\ room'[r].hostId = players[r][i].userId
                   /\ room'[r].status = "WAITING"
              ELSE /\ room'[r].status = "FINISHED"
                   /\ ~room'[r].cached
                   /\ ~room'[r].codeMapped]_vars

\* User 1 has left a room of three records; the room is WAITING and its host
\* is user 3, who joined before user 2.
C26_Witness ==
    /\ last.op = "leave"
    /\ last.ok
    /\ room[1].status = "WAITING"
    /\ room[1].hostId = 3
    /\ Len(players[1]) = 3
    /\ ~players[1][1].isActive
    /\ players[1][2].userId = 3 /\ players[1][2].isActive
    /\ players[1][3].userId = 2 /\ players[1][3].isActive

----------------------------------------------------------------------------
\* Properties of SpecStart

\* The records of room r that hold the role.
Holders(r, role) == {i \in DOMAIN players[r] : players[r][i].role = role}

RolesOf(r) == [i \in DOMAIN players[r] |-> players[r][i].role]

Started(r) == room[r].status \in {"IN_PROGRESS", "FINISHED"}

\* C28: once a game is started exactly one player of the room holds
\* BLACK_HAT and at most one holds WHITE_HAT, and no role changes any more,
\* after any number of startGame requests, overlapping ones included, and any
\* eliminations.
C28_RolesFixedAtStart ==
    /\ [](\A r \in RoomIds :
             Started(r) =>
                 /\ Cardinality(Holders(r, "BLACK_HAT")) = 1
                 /\ Cardinality(Holders(r, "WHITE_HAT")) <= 1)
    /\ [][\A r \in RoomIds : Started(r) => RolesOf(r)' = RolesOf(r)]_vars

\* C29: the secret word a player receives depends only on the player's role
\* and the word pair: wordA for a CIVILIAN, wordB for the BLACK_HAT, no word
\* for the WHITE_HAT; with wordA and wordB different, a civilian and the black
\* hat receive different words.
C29_WordByRole ==
    JustStarted =>
        LET pair == WordCatalogue[game[1].wordPairId]
        IN  /\ DOMAIN last.words = {i \in DOMAIN players[1] : players[1][i].role # "NONE"}
            /\ \A i \in DOMAIN last.words :
                   /\ players[1][i].role = "CIVILIAN" => last.words[i] = Word(pair.wordA)
                   /\ players[1][i].role = "BLACK_HAT" => last.words[i] = Word(pair.wordB)
                   /\ players[1][i].role = "WHITE_HAT" => last.words[i] = NullWord
            /\ pair.wordA # pair.wordB =>
                   \A i, j \in DOMAIN last.words :
                       (players[1][i].role = "CIVILIAN" /\ players[1][j].role = "BLACK_HAT") =>
                           last.words[i] # last.words[j]

\* A game of six has just started: the player with no word is the WHITE_HAT,
\* and a player who left before the start was sent nothing.
C29_Witness ==
    /\ JustStarted
    /\ Len(players[1]) = 7
    /\ Cardinality(DOMAIN last.words) = 6
    /\ \E i \in DOMAIN last.words : last.words[i] = NullWord /\ players[1][i].role = "WHITE_HAT"

----------------------------------------------------------------------------
\* Properties of SpecWin

\* The result C2 prescribes for the players of room r.
ExpectedWin(r) ==
    LET blackHatActive == \E id \in ActiveIds(r) : RoleOfId(id) = "BLACK_HAT"
    IN  IF Cardinality(ActiveIds(r)) <= 2 /\ blackHatActive
        THEN [gameOver |-> TRUE, winner |-> "BLACK_HAT"]
        ELSE IF ~blackHatActive
        THEN [gameOver |-> TRUE, winner |-> "CIVILIAN"]
        ELSE [gameOver |-> FALSE, winner |-> "NONE"]

----------------------------------------------------------------------------
\* Properties of Spec: the players of a game under way

\* The active player records of room r that hold the role.
ActiveHolders(r, role) ==
    {i \in DOMAIN players[r] : players[r][i].isActive /\ players[r][i].role = role}

\* C31: while a session is in HINTING or VOTING the BLACK_HAT is active and
\* at least three players of the room are active: no round is played in
\* which a win condition already holds.
C31_NoRoundPastAWin ==
    \A r \in RoomIds :
        (HasSession(r) /\ game[r].phase \in {"HINTING", "VOTING"}) =>
            /\ ActiveHolders(r, "BLACK_HAT") # {}
            /\ Cardinality(ActiveIds(r)) >= 3

----------------------------------------------------------------------------
\* Properties of SpecWH: eliminations

\* C32: the eliminated-player list of a session never holds the same
\* player id twice.
C32_EliminatedOnce ==
    \A r \in RoomIds :
        \A i \in DOMAIN game[r].eliminatedPlayers :
            \A j \in DOMAIN game[r].eliminatedPlayers :
                i # j => game[r].eliminatedPlayers[i] # game[r].eliminatedPlayers[j]

\* C33: the player resolveVotes eliminates is a member of the turn order of
\* the round being resolved and was active just before the resolution; no
\* other player is marked inactive by it.
C33_EliminatedWasPlaying ==
    [][\A r \in RoomIds :
          LET e == last'.eliminatedPlayerId
          IN  (/\ HasSession(r)
               /\ game[r].phase = "VOTING"
               /\ last'.op = "submitVote"
               /\ last'.resolved) =>
                  /\ e # NullId =>
                         /\ e \in Range(game[r].turnOrder)
                         /\ e \in ActiveIds(r)
                  /\ ActiveIds(r) \ ActiveIds(r)' \subseteq {e} \cap Range(game[r].turnOrder)]_vars

\* The players of the current round of room r: the turn order without the
\* eliminated players.
RoundPlayers(r) == Range(game[r].turnOrder) \ Range(game[r].eliminatedPlayers)

\* C34: every voter recorded in the vote map is a non-eliminated member of
\* the current round's turn order, so the votes are never more than the
\* round's players.
C34_VotersArePlaying ==
    \A r \in RoomIds :
        /\ DOMAIN game[r].votes \subseteq RoundPlayers(r)
        /\ Cardinality(DOMAIN game[r].votes) <= Cardinality(RoundPlayers(r))

----------------------------------------------------------------------------
\* Properties of SpecTwice

\* The SUBMIT_VOTE requests that went on to resolveVotes having read the
\* session in round n.
ResolversOf(n) ==
    {c \in VoteCallers : calls[c].pc = "done" /\ calls[c].allVoted /\ calls[c].roundNumber = n}

\* C35: for each round number at most one SUBMIT_VOTE request goes on to
\* resolveVotes, however the handlers interleave.
C35_ResolvedOncePerRound ==
    \A n \in 1..MaxRound : Cardinality(ResolversOf(n)) <= 1

----------------------------------------------------------------------------
\* Properties of SpecStart: the start of a game

\* The START_GAME requests that were answered with success.
StartedBy(r) ==
    {c \in StartCallers : c[1] = r /\ calls[c].pc = "done" /\ calls[c].ok}

\* The round records of room r with round number n.
RoundRecords(r, n) == {i \in DOMAIN rounds[r] : rounds[r][i].roundNumber = n}

\* C36: of the START_GAME requests for a room at most one succeeds, however
\* the handlers interleave, and the room has at most one record of round 1.
C36_StartedOnce ==
    \A r \in RoomIds :
        /\ Cardinality(StartedBy(r)) <= 1
        /\ Cardinality(RoundRecords(r, 1)) <= 1

----------------------------------------------------------------------------
\* Properties of SpecStatus

\* The order of the room statuses.
StatusRank(status) ==
    CASE status = "WAITING" -> 1
      [] status = "IN_PROGRESS" -> 2
      [] status = "FINISHED" -> 3
      [] OTHER -> 0

\* C37: the status of a room only moves forward, WAITING to IN_PROGRESS to
\* FINISHED or WAITING to FINISHED, and a join is accepted only while the
\* status is WAITING.
C37_StatusMovesForward ==
    [][\A r \in RoomIds :
          /\ StatusRank(room'[r].status) >= StatusRank(room[r].status)
          /\ \A u \in LobbyUsers :
                 (last'.ok /\ last'.op = "join" /\ JoinHandler(r, u)) =>
                     room[r].status = "WAITING"]_vars

\* A room that was played in is FINISHED.
C37_Witness ==
    /\ room[1].status = "FINISHED"
    /\ rounds[1] # <<>>

----------------------------------------------------------------------------
\* Properties of SpecClues

\* The authors of the clues of room r's current round, in list order.
ClueAuthors(r) == [i \in DOMAIN game[r].clues |-> game[r].clues[i].playerId]

\* The 0-based positions of id in the turn order of room r.
TurnsOf(r, id) == {k \in 0..(Len(game[r].turnOrder) - 1) : game[r].turnOrder[k + 1] = id}

\* C38: the clue list of the current round holds at most one clue per
\* player, in turn-order order, and each author is a player the turn cursor
\* has been on: every author has one position in the turn order, before the
\* cursor, the positions increase along the list, and every position before
\* the cursor belongs to an author or to an eliminated player.  This holds
\* also when requests of one player overlap.
C38_CluesFollowTheTurns ==
    \A r \in RoomIds :
        HasSession(r) =>
            /\ \A i \in DOMAIN ClueAuthors(r) :
                   /\ Cardinality(TurnsOf(r, ClueAuthors(r)[i])) = 1
                   /\ \A k \in TurnsOf(r, ClueAuthors(r)[i]) : k < game[r].currentTurnIndex
                   /\ \A j \in DOMAIN ClueAuthors(r) :
                          i < j => \A k \in TurnsOf(r, ClueAuthors(r)[i]) :
                                       \A l \in TurnsOf(r, ClueAuthors(r)[j]) : k < l
            /\ \A k \in 0..(game[r].currentTurnIndex - 1) :
                   \/ game[r].turnOrder[k + 1] \in Range(ClueAuthors(r))
                   \/ game[r].turnOrder[k + 1] \in Range(game[r].eliminatedPlayers)

\* Two requests of one player that overlapped were both answered with
\* success in the round the session is in, and the player has a clue in the
\* list.
C38_Witness ==
    \E u \in ClueRepeaters :
        /\ calls[ClueCallId(1, u, 1)].pc = "done" /\ calls[ClueCallId(1, u, 1)].ok
        /\ calls[ClueCallId(1, u, 2)].pc = "done" /\ calls[ClueCallId(1, u, 2)].ok
        /\ calls[ClueCallId(1, u, 1)].roundNumber = game[1].roundNumber
        /\ calls[ClueCallId(1, u, 2)].roundNumber = game[1].roundNumber
        /\ PlayerId(1, u) \in Range(ClueAuthors(1))

----------------------------------------------------------------------------
\* Properties of Spec: the life of a session

\* C39: between operations a room has a session if and only if its status
\* is IN_PROGRESS.
C39_SessionIffInProgress ==
    \A r \in RoomIds : HasSession(r) <=> room[r].status = "IN_PROGRESS"

\* A game was played to its end: the room is FINISHED and its session is
\* gone.
C39_Witness ==
    /\ room[1].status = "FINISHED"
    /\ rounds[1] # <<>>
    /\ ~HasSession(1)
    /\ last.gameOver

----------------------------------------------------------------------------
\* Properties of SpecWH: who may guess

\* The player whose elimination opened the GUESSING phase of room r.
GuessingPlayer(r) ==
    IF game[r].eliminatedPlayers = <<>> THEN NullId
    ELSE game[r].eliminatedPlayers[Len(game[r].eliminatedPlayers)]

\* C40: in phase GUESSING a SUBMIT_GUESS of a player other than the
\* eliminated WHITE_HAT is rejected and changes neither the session nor the
\* room, and announces no winner.
C40_OnlyTheWhiteHatGuesses ==
    [][\A r \in RoomIds : \A u \in GuessersWH : \A g \in GuessesWH :
          (/\ game[r].phase = "GUESSING"
           /\ PlayerId(r, u) # GuessingPlayer(r)
           /\ SubmitGuessHandler(r, PlayerId(r, u), g, Orders(r))) =>
              /\ ~last'.ok
              /\ game'[r] = game[r]
              /\ room'[r] = room[r]
              /\ last'.winner = "NONE"]_vars

====
